---- MODULE Spec2Model ----
(***************************************************************************)
(* A model of the GPTinference backend core: the hybrid (PostgreSQL +      *)
(* Redis) conversation memory, the sliding-window rate limiter, the Celery *)
(* chat task pipeline, the Ollama client and the system-prompt pointer.    *)
(* Each group of variables has its own specification; a specification      *)
(* leaves the other groups unchanged.                                      *)
(***************************************************************************)
EXTENDS Integers, Sequences, FiniteSets, TLC

\* ---------------------------------------------------------------------
\* Bounds of the model
\* ---------------------------------------------------------------------
MaxMsgs == 3
MaxLimit == 2
MaxTok == 2
MaxRLimit == 2
MaxWindow == 2
MaxCost == 2
MaxTime == 6
TicksPerSecond == 2

ConvIds == {"c1", "c2"}
UserIds == {"u1"}
UserRows == UserIds \cup {"anonymous"}
\* Optional[str] user_id of a call: "none" stands for None.
Callers == UserIds \cup {"none"}
\* The save_message calls tried: role, content, token count and user_id.
\* A content is modelled by the set of marker phrases it contains; an
\* Optional[int] token count is {} for None and {n} for the integer n.
SaveInputs ==
    { [role |-> "user", content |-> {"python", "na russkom"}, tokens |-> {MaxTok}, caller |-> "u1"],
      [role |-> "assistant", content |-> {}, tokens |-> {}, caller |-> "u1"],
      [role |-> "system", content |-> {}, tokens |-> {0}, caller |-> "none"] }
\* Optional[int] limit of a read: 0 stands for None (both are falsy).
Limits == 0..MaxLimit
RLKeys == {"minute"}

VARIABLES
    conversations,  \* PostgreSQL table conversations, by conversation_id
    messages,       \* PostgreSQL table messages, by conversation, in created_at order
    users,          \* PostgreSQL table users, by user_identifier
    redis,          \* Redis keys conversation:{id}
    userCache,      \* Redis keys user:{id}
    nextId,         \* number of message ids (uuid4) handed out so far
    lastSaved,      \* by conversation: the message id of the last save that returned True
                    \* (0: none) and whether the cache held a record before that write
    got             \* what the last memory call returned

memVars == <<conversations, messages, users, redis, userCache, nextId, lastSaved, got>>

VARIABLES
    now,            \* time.time(), in whole seconds
    rlConf,         \* by rate-limit key: the limit and window its callers pass
    rlWindow,       \* by key: the scores of the sorted set, oldest first
    rlExpire,       \* by key: the time the key's TTL runs out (0: no TTL)
    rlRun,          \* by key: the checks made since the window was last found empty
    rlCalls,        \* by caller: the check_rate_limit call it is in the middle of
    rlGot           \* what the last check returned

rlVars == <<now, rlConf, rlWindow, rlExpire, rlRun, rlCalls, rlGot>>

VARIABLES
    tasks           \* by Celery task id: the queued message, the worker's position in
                    \* it and the state and result kept by the result backend

taskVars == <<tasks>>

VARIABLES
    available_models,     \* OllamaManager._available_models, by the model names
    models_last_updated,  \* OllamaManager._models_last_updated (0: None)
    clock,                \* time.time() as the Ollama client reads it, in seconds
    backendModels,        \* the models the Ollama server lists under /api/tags
    oGot,                 \* what the last call of the client did and returned
    backoff               \* the seconds the client has slept between retries so far

ollamaVars == <<available_models, models_last_updated, clock, backendModels, oGot, backoff>>

VARIABLES
    entries,        \* table system_memory: the rows saved as system prompts, by key
    pointer,        \* table system_memory: the row 'system_prompt_active'
    procs,          \* the API requests in flight, by the coroutine serving them
    lastDeleted     \* the key of the last successful delete_prompt since the
                    \* pointer was last written by an activation ("none": no such)

promptVars == <<entries, pointer, procs, lastDeleted>>

VARIABLES
    memCalls        \* by caller: the memory call it is in the middle of, when the
                    \* calls are followed statement by statement

raceVars == <<memCalls>>

VARIABLES
    db_manager,     \* the module's _db_manager: whether it is set, the state of its
                    \* pool, and how often create_pool has been awaited for it
    dbCalls         \* by caller: the get_database_manager call it is in, and what
                    \* its last call returned

dbVars == <<db_manager, dbCalls>>

VARIABLES
    ollama_session, \* the singleton OllamaManager's _session (0: None), the sessions
                    \* created so far and the closed ones
    chatCalls       \* by request: where its _process_chat_async is, and the
                    \* session its generate is posting on

sessionVars == <<ollama_session, chatCalls>>

vars == <<memVars, rlVars, taskVars, ollamaVars, promptVars, raceVars, dbVars, sessionVars>>
\* What each group's actions leave alone
notMem == <<rlVars, taskVars, ollamaVars, promptVars, raceVars, dbVars, sessionVars>>
notRL == <<memVars, taskVars, ollamaVars, promptVars, raceVars, dbVars, sessionVars>>
notTask == <<rlVars, ollamaVars, promptVars, raceVars, dbVars, sessionVars>>
notOllama == <<memVars, rlVars, taskVars, promptVars, raceVars, dbVars, sessionVars>>
notPrompt == <<memVars, rlVars, taskVars, ollamaVars, raceVars, dbVars, sessionVars>>
notRace == <<rlVars, taskVars, ollamaVars, promptVars, dbVars, sessionVars>>
notDb == <<memVars, rlVars, taskVars, ollamaVars, promptVars, raceVars, sessionVars>>
notSession == <<memVars, rlVars, taskVars, ollamaVars, promptVars, raceVars, dbVars>>

\* ---------------------------------------------------------------------
\* Helpers
\* ---------------------------------------------------------------------
RECURSIVE SumTokens(_)
Coalesce0(t) == IF t = {} THEN 0 ELSE CHOOSE n \in t : TRUE
SumTokens(s) == IF s = <<>> THEN 0 ELSE Coalesce0(Head(s).tokens) + SumTokens(Tail(s))

\* s[-n:] of Python for n >= 1
LastN(s, n) == IF Len(s) > n THEN SubSeq(s, Len(s) - n + 1, Len(s)) ELSE s

Ids(s) == {s[i].id : i \in 1..Len(s)}

\* exists: the conversation_id has a row with is_active = TRUE; inactive: it
\* has a row that delete_conversation_memory has set to is_active = FALSE
NoRow == [exists |-> FALSE, inactive |-> FALSE, user |-> "anonymous",
          message_count |-> 0, total_tokens |-> 0]
NoEntry == [present |-> FALSE, user |-> "anonymous", messages |-> <<>>,
            message_count |-> 0, total_tokens |-> 0]
NoUser == [exists |-> FALSE, facts |-> <<>>, language |-> "none"]
NoUserEntry == [present |-> FALSE, facts |-> <<>>, language |-> "none"]
NoSave == [id |-> 0, warm |-> FALSE]
NoProfile == [facts |-> <<>>, language |-> "none"]
\* The prompt, by its blocks. layout "context": the lines from 'KONTEKST:' to
\* 'TEKUSHCHIJ VOPROS:', the user turn and 'Assistent:'; layout "fallback":
\* the user turn and 'Assistent:' alone. A block left out is "none" or <<>>.
NoBlocks == [layout |-> "fallback", instructions |-> "none", identity |-> "none",
             language |-> "none", style |-> "none", facts |-> <<>>, history |-> <<>>,
             question |-> {}]
NoResult == [op |-> "none", conv |-> "c1", ok |-> FALSE, served |-> "none",
             limit |-> 0, messages |-> <<>>, message_count |-> 0, total_tokens |-> 0,
             after |-> NoSave, nth |-> 0, prevServed |-> "none",
             user |-> "none", cacheUp |-> TRUE, profile |-> NoProfile,
             arg |-> "none", failed |-> {}, prompt |-> NoBlocks, lines |-> <<>>]

\* The requests that are in a memory call at the same time
MemCallers == {"a", "b"}
NoMsg == [id |-> 0, role |-> "none", content |-> {}, tokens |-> {}]
NoRead == [found |-> FALSE, user |-> "anonymous", message_count |-> 0, total_tokens |-> 0,
           messages |-> <<>>]
\* op: the call; pc: the statement it is about to run; m, caller: the
\* arguments of a save; read: what its SELECTs have returned so far; first:
\* the save found no conversation; created: it has inserted the row;
\* failedAt: the statement of the save that raised;
\* returned: the record a get_conversation_memory has returned, or ok for a save
IdleCall == [op |-> "none", pc |-> "idle", conv |-> "c1", limit |-> 0, m |-> NoMsg,
             caller |-> "none", read |-> NoRead, ok |-> FALSE,
             first |-> FALSE, created |-> FALSE, failedAt |-> "none",
             returned |-> [served |-> "none", message_count |-> 0, messages |-> <<>>]]

\* ---------------------------------------------------------------------
\* RedisTracer: errors of the Redis client are swallowed
\* ---------------------------------------------------------------------
\* trace_get: the stored value, or None (an absent entry) on a miss or an error
trace_get(r, key, up) == IF up /\ r[key].present THEN r[key] ELSE NoEntry

\* trace_set: SETEX key ttl value; an error leaves the key as it was
trace_set(r, key, value, up) == IF up THEN [r EXCEPT ![key] = value] ELSE r

\* trace_delete: DEL key; an error leaves the key as it was
trace_delete_keep(r, key, up) == r
trace_delete(r, key, up) == IF up THEN [r EXCEPT ![key] = NoEntry] ELSE r

\* ---------------------------------------------------------------------
\* DatabaseManager
\* ---------------------------------------------------------------------
\* get_or_create_user: INSERT the user when no active row has the identifier
get_or_create_user(us, u) ==
    IF ~us[u].exists
    THEN [us EXCEPT ![u] = [exists |-> TRUE, facts |-> <<>>, language |-> "none"]]
    ELSE us

\* create_conversation: a new row; message_count and total_tokens start at 0
create_conversation(cs, c, u) ==
    [cs EXCEPT ![c] = [exists |-> TRUE, inactive |-> cs[c].inactive, user |-> u,
                       message_count |-> 0, total_tokens |-> 0]]

\* get_conversation: the row joined with its user, and the messages in
\* created_at order, the latest message_limit of them when a limit is given
db_get_conversation(cs, ms, c, include_messages, message_limit) ==
    [found |-> cs[c].exists,
     user |-> cs[c].user,
     message_count |-> cs[c].message_count,
     total_tokens |-> cs[c].total_tokens,
     messages |-> IF ~include_messages THEN <<>>
                  ELSE IF message_limit # 0 THEN LastN(ms[c], message_limit)
                  ELSE ms[c]]

\* add_message: INSERT INTO messages, then UPDATE conversations SET
\* message_count = message_count + 1, total_tokens = total_tokens + COALESCE($2, 0)
add_message_stats_skip(row, tokens) == row
add_message_stats(row, tokens) ==
    [row EXCEPT !.message_count = @ + 1, !.total_tokens = @ + Coalesce0(tokens)]

add_message_rows(cs, c, m) == [cs EXCEPT ![c] = add_message_stats(cs[c], m.tokens)]
add_message_msgs(ms, c, m) == [ms EXCEPT ![c] = Append(@, m)]

\* update_user_preferences: preferences || patch (here the language key)
db_update_user_preferences(us, u, lang) ==
    IF us[u].exists THEN [us EXCEPT ![u].language = lang] ELSE us

\* add_user_fact: array_append(facts, $2) WHERE NOT ($2 = ANY(facts))
db_add_user_fact_always(us, u, fact) ==
    IF us[u].exists THEN [us EXCEPT ![u].facts = Append(@, fact)] ELSE us
db_add_user_fact(us, u, fact) ==
    IF us[u].exists /\ ~(\E i \in 1..Len(us[u].facts) : us[u].facts[i] = fact)
    THEN [us EXCEPT ![u].facts = Append(@, fact)]
    ELSE us

\* ---------------------------------------------------------------------
\* HybridMemoryManager
\* ---------------------------------------------------------------------
\* The ConversationMemory built from a database read
FromDb(d) == [present |-> TRUE, user |-> d.user, messages |-> d.messages,
              message_count |-> d.message_count, total_tokens |-> d.total_tokens]

\* if limit and len(conversation.messages) > limit: messages[-limit:]
cache_trim_none(msgs, limit) == msgs
cache_trim(msgs, limit) == IF limit # 0 /\ Len(msgs) > limit THEN LastN(msgs, limit) ELSE msgs

\* get_conversation_memory, the record returned: from the cache on a hit
\* (trimmed to the last `limit` messages), from PostgreSQL otherwise
get_conversation_memory(r, cs, ms, c, limit, cacheUp, dbUp) ==
    LET cached == trace_get(r, c, cacheUp)
        d == db_get_conversation(cs, ms, c, TRUE, limit)
    IN  IF cached.present
        THEN [ok |-> TRUE, served |-> "cache",
              messages |-> cache_trim(cached.messages, limit),
              message_count |-> cached.message_count,
              total_tokens |-> cached.total_tokens]
        ELSE IF ~dbUp \/ ~d.found
        THEN [ok |-> FALSE, served |-> "none", messages |-> <<>>,
              message_count |-> 0, total_tokens |-> 0]
        ELSE [ok |-> TRUE, served |-> "db", messages |-> d.messages,
              message_count |-> d.message_count, total_tokens |-> d.total_tokens]

\* get_conversation_memory, the cache after the call: a miss that finds the
\* conversation in PostgreSQL stores the assembled record under a TTL
get_conversation_cache(r, cs, ms, c, limit, cacheUp, dbUp) ==
    LET cached == trace_get(r, c, cacheUp)
        d == db_get_conversation(cs, ms, c, TRUE, limit)
    IN  IF cached.present \/ ~dbUp \/ ~d.found THEN r
        ELSE trace_set(r, c, FromDb(d), cacheUp)

\* _extract_and_save_user_facts: keyword extraction over the content
FactsOf(content) ==
    IF "python" \in content THEN <<"prog:python">> ELSE <<>>

RECURSIVE AddFacts(_, _, _)
AddFacts(us, u, facts) ==
    IF facts = <<>> THEN us ELSE AddFacts(db_add_user_fact(us, u, Head(facts)), u, Tail(facts))

extract_users(us, u, content) ==
    LET us1 == IF "na russkom" \in content THEN db_update_user_preferences(us, u, "ru") ELSE us
    IN  AddFacts(us1, u, FactsOf(content))

\* update_user_preferences / add_user_fact delete user:{id} when the row changed
\* (an error of the delete is caught and leaves the key as it was)
extract_user_cache(uc, us, u, content, cacheUp) ==
    IF cacheUp /\ (extract_users(us, u, content) # us \/ (us[u].exists /\ "na russkom" \in content))
    THEN [uc EXCEPT ![u] = NoUserEntry] ELSE uc

\* save_conversation_message: what it returns and the stores after it. The
\* definition of the tables is not part of the sources: `unique` tells whether
\* conversation_id is unique in conversations, in which case the INSERT of
\* create_conversation fails when a deleted (inactive) row holds the id;
\* otherwise the new row starts without messages.
save_conversation_message(c, m, caller, cacheUp, dbUp, unique) ==
    LET owner == IF caller = "none" THEN "anonymous" ELSE caller
        fresh == ~db_get_conversation(conversations, messages, c, FALSE, 0).found
        us1 == IF fresh THEN get_or_create_user(users, owner) ELSE users
        cs1 == IF fresh THEN create_conversation(conversations, c, owner) ELSE conversations
        cs2 == add_message_rows(cs1, c, m)
        ms1 == IF fresh THEN [messages EXCEPT ![c] = <<>>] ELSE messages
        ms2 == add_message_msgs(ms1, c, m)
        r1 == trace_delete(redis, c, cacheUp)
        r2 == get_conversation_cache(r1, cs2, ms2, c, 0, cacheUp, dbUp)
        extract == m.role = "user" /\ caller # "none"
    IN  IF ~dbUp
        THEN [ok |-> FALSE, conversations |-> conversations, messages |-> messages,
              redis |-> redis, users |-> users, userCache |-> userCache]
        ELSE IF fresh /\ conversations[c].inactive /\ unique
        THEN [ok |-> FALSE, conversations |-> conversations, messages |-> messages,
              redis |-> redis, users |-> us1, userCache |-> userCache]
        ELSE [ok |-> TRUE, conversations |-> cs2, messages |-> ms2, redis |-> r2,
              users |-> IF extract THEN extract_users(us1, caller, m.content) ELSE us1,
              userCache |-> IF extract
                            THEN extract_user_cache(userCache, us1, caller, m.content, cacheUp)
                            ELSE userCache]

SaveMessage(c, role, content, tokens, caller, unique) ==
    /\ nextId < MaxMsgs
    /\ LET m == [id |-> nextId + 1, role |-> role, content |-> content, tokens |-> tokens]
           res == save_conversation_message(c, m, caller, TRUE, TRUE, unique)
       IN  /\ conversations' = res.conversations
           /\ messages' = res.messages
           /\ redis' = res.redis
           /\ users' = res.users
           /\ userCache' = res.userCache
           /\ nextId' = nextId + 1
           /\ lastSaved' = IF res.ok
                           THEN [lastSaved EXCEPT ![c] = [id |-> m.id, warm |-> redis[c].present]]
                           ELSE lastSaved
           /\ got' = [NoResult EXCEPT !.op = "save", !.conv = c, !.ok = res.ok]
           /\ UNCHANGED notMem

\* _extract_and_save_user_facts as save_conversation_message awaits it:
\* the body is one try whose except logs; dbUp tells whether PostgreSQL
\* answers the updates of the extraction
extract_and_save_user_facts_uncaught(us, uc, u, content, cacheUp, dbUp) ==
    [raised |-> ~dbUp, users |-> us, userCache |-> uc]
extract_and_save_user_facts(us, uc, u, content, cacheUp, dbUp) ==
    [raised |-> FALSE,
     users |-> IF dbUp THEN extract_users(us, u, content) ELSE us,
     userCache |-> IF dbUp THEN extract_user_cache(uc, us, u, content, cacheUp) ELSE uc]

\* save_conversation_message whose add_message succeeds, by what follows
\* the append: the DEL and the re-population of conversation:{id} (cacheUp:
\* Redis answers; recacheUp: PostgreSQL answers the read of the
\* re-population) and the extraction (extractUp: PostgreSQL answers it)
save_after_append(c, m, caller, cacheUp, recacheUp, extractUp) ==
    LET owner == IF caller = "none" THEN "anonymous" ELSE caller
        fresh == ~db_get_conversation(conversations, messages, c, FALSE, 0).found
        us1 == IF fresh THEN get_or_create_user(users, owner) ELSE users
        cs1 == IF fresh THEN create_conversation(conversations, c, owner) ELSE conversations
        cs2 == add_message_rows(cs1, c, m)
        ms1 == IF fresh THEN [messages EXCEPT ![c] = <<>>] ELSE messages
        ms2 == add_message_msgs(ms1, c, m)
        r1 == trace_delete(redis, c, cacheUp)
        r2 == get_conversation_cache(r1, cs2, ms2, c, 0, cacheUp, recacheUp)
        extract == m.role = "user" /\ caller # "none"
        ex == IF extract
              THEN extract_and_save_user_facts(us1, userCache, caller, m.content, cacheUp,
                                               extractUp)
              ELSE [raised |-> FALSE, users |-> us1, userCache |-> userCache]
    IN  [ok |-> ~ex.raised, conversations |-> cs2, messages |-> ms2, redis |-> r2,
         users |-> ex.users, userCache |-> ex.userCache,
         failed |-> (IF ~cacheUp THEN {"cache"} ELSE {})
                        \cup (IF ~recacheUp THEN {"recache"} ELSE {})
                        \cup (IF extract /\ ~extractUp THEN {"extract"} ELSE {})]

\* save_conversation_message, the side effects after the append failing or not
SaveMessageAppended(c, role, content, tokens, caller, cacheUp, recacheUp, extractUp) ==
    /\ nextId < MaxMsgs
    /\ LET m == [id |-> nextId + 1, role |-> role, content |-> content, tokens |-> tokens]
           res == save_after_append(c, m, caller, cacheUp, recacheUp, extractUp)
       IN  /\ conversations' = res.conversations
           /\ messages' = res.messages
           /\ redis' = res.redis
           /\ users' = res.users
           /\ userCache' = res.userCache
           /\ nextId' = nextId + 1
           /\ lastSaved' = IF res.ok
                           THEN [lastSaved EXCEPT ![c] = [id |-> m.id, warm |-> redis[c].present]]
                           ELSE lastSaved
           /\ got' = [NoResult EXCEPT !.op = "save", !.conv = c, !.ok = res.ok,
                                      !.user = caller, !.arg = role, !.cacheUp = cacheUp,
                                      !.failed = res.failed,
                                      !.after = [id |-> m.id, warm |-> redis[c].present]]
           /\ UNCHANGED notMem

\* get_conversation_memory
GetConversation(c, limit) ==
    LET res == get_conversation_memory(redis, conversations, messages, c, limit, TRUE, TRUE)
    IN  /\ redis' = get_conversation_cache(redis, conversations, messages, c, limit, TRUE, TRUE)
        /\ got' = [NoResult EXCEPT !.op = "get", !.conv = c, !.ok = res.ok,
                      !.served = res.served, !.limit = limit, !.messages = res.messages,
                      !.message_count = res.message_count,
                      !.total_tokens = res.total_tokens, !.after = lastSaved[c]]
        /\ UNCHANGED <<conversations, messages, users, userCache, nextId, lastSaved>>
        /\ UNCHANGED notMem

\* The TTL of a conversation:{id} key runs out (CONVERSATION_CACHE_TTL)
\* ---------------------------------------------------------------------
\* The same calls statement by statement: every await of
\* save_conversation_message and get_conversation_memory is a step of its
\* caller, so that the calls of two requests interleave. PostgreSQL and Redis
\* answer; the UPDATE of add_message may fail.
\* ---------------------------------------------------------------------
\* save_conversation_message: db.get_conversation(id, include_messages=False)
SaveBegin(p, c, role, content, tokens, caller) ==
    LET found == db_get_conversation(conversations, messages, c, FALSE, 0).found
    IN  /\ memCalls[p].pc = "idle"
        /\ nextId < MaxMsgs
        /\ nextId' = nextId + 1
        /\ memCalls' = [memCalls EXCEPT ![p] =
              [IdleCall EXCEPT !.op = "save", !.conv = c, !.caller = caller,
                               !.m = [id |-> nextId + 1, role |-> role, content |-> content,
                                      tokens |-> tokens],
                               !.first = ~found,
                               !.pc = IF found THEN "select" ELSE "create"]]
        /\ UNCHANGED <<conversations, messages, users, redis, userCache, lastSaved, got>>
        /\ UNCHANGED notRace

\* db.create_conversation: get_or_create_user and the INSERT of the row.
\* When another request has inserted the conversation_id meanwhile, the
\* INSERT raises if the id is unique in the table (the save returns False),
\* and inserts a second row for the id if it is not (the two rows are then
\* followed as one).
SaveCreate(p, unique) ==
    LET c == memCalls[p].conv
        owner == IF memCalls[p].caller = "none" THEN "anonymous" ELSE memCalls[p].caller
        taken == conversations[c].exists
    IN  /\ memCalls[p].pc = "create"
        /\ users' = get_or_create_user(users, owner)
        /\ conversations' = IF taken THEN conversations
                            ELSE create_conversation(conversations, c, owner)
        /\ memCalls' = [memCalls EXCEPT ![p] =
              IF taken /\ unique
              THEN [memCalls[p] EXCEPT !.pc = "idle", !.failedAt = "create"]
              ELSE [memCalls[p] EXCEPT !.pc = "select", !.created = TRUE]]
        /\ UNCHANGED <<messages, redis, userCache, nextId, lastSaved, got>>
        /\ UNCHANGED notRace

\* db.add_message: SELECT id FROM conversations
SaveSelect(p) ==
    /\ memCalls[p].pc = "select"
    /\ memCalls' = [memCalls EXCEPT ![p].pc = IF conversations[memCalls[p].conv].exists
                                              THEN "insert" ELSE "idle"]
    /\ UNCHANGED memVars
    /\ UNCHANGED notRace

\* db.add_message: INSERT INTO messages, a statement of its own (the
\* connection is in autocommit, add_message opens no transaction)
SaveInsert(p) ==
    /\ memCalls[p].pc = "insert"
    /\ messages' = add_message_msgs(messages, memCalls[p].conv, memCalls[p].m)
    /\ memCalls' = [memCalls EXCEPT ![p].pc = "update"]
    /\ UNCHANGED <<conversations, users, redis, userCache, nextId, lastSaved, got>>
    /\ UNCHANGED notRace

\* db.add_message: UPDATE conversations SET message_count = message_count + 1 ...
SaveUpdate(p) ==
    /\ memCalls[p].pc = "update"
    /\ conversations' = add_message_rows(conversations, memCalls[p].conv, memCalls[p].m)
    /\ memCalls' = [memCalls EXCEPT ![p].pc = "invalidate"]
    /\ UNCHANGED <<messages, users, redis, userCache, nextId, lastSaved, got>>
    /\ UNCHANGED notRace

\* The UPDATE raises (the connection is lost, the statement times out):
\* add_message raises and the save returns False
SaveUpdateFails(p) ==
    /\ memCalls[p].pc = "update"
    /\ memCalls' = [memCalls EXCEPT ![p] =
          [IdleCall EXCEPT !.op = "save", !.m = memCalls[p].m, !.first = memCalls[p].first,
                           !.created = memCalls[p].created, !.failedAt = "update"]]
    /\ UNCHANGED memVars
    /\ UNCHANGED notRace

\* trace_delete(conversation:{id}), then get_conversation_memory(id)
SaveInvalidate(p) ==
    /\ memCalls[p].pc = "invalidate"
    /\ redis' = trace_delete(redis, memCalls[p].conv, TRUE)
    /\ memCalls' = [memCalls EXCEPT ![p].pc = "cacheGet"]
    /\ UNCHANGED <<conversations, messages, users, userCache, nextId, lastSaved, got>>
    /\ UNCHANGED notRace

\* A request calls get_conversation_memory(id, limit)
GetBegin(p, c, limit) ==
    /\ memCalls[p].pc = "idle"
    /\ memCalls' = [memCalls EXCEPT ![p] =
          [IdleCall EXCEPT !.op = "get", !.conv = c, !.limit = limit, !.pc = "cacheGet"]]
    /\ UNCHANGED memVars
    /\ UNCHANGED notRace

\* Where a call goes on after its get_conversation_memory has returned
after_get(call) == IF call.op = "save" THEN "extract" ELSE "idle"

\* get_conversation_memory: trace_get; a hit is returned
GetCache(p) ==
    LET call == memCalls[p]
        cached == trace_get(redis, call.conv, TRUE)
    IN  /\ call.pc = "cacheGet"
        /\ memCalls' = [memCalls EXCEPT ![p] =
              IF cached.present
              THEN [call EXCEPT !.pc = after_get(call),
                                !.returned = [served |-> "cache",
                                              message_count |-> cached.message_count,
                                              messages |-> cache_trim(cached.messages,
                                                                      call.limit)]]
              ELSE [call EXCEPT !.pc = "dbRow"]]
        /\ UNCHANGED memVars
        /\ UNCHANGED notRace

\* db.get_conversation: the SELECT of the conversation row
GetRow(p) ==
    LET d == db_get_conversation(conversations, messages, memCalls[p].conv, FALSE, 0)
    IN  /\ memCalls[p].pc = "dbRow"
        /\ memCalls' = [memCalls EXCEPT ![p] =
              IF d.found THEN [memCalls[p] EXCEPT !.pc = "dbMessages", !.read = d]
              ELSE [memCalls[p] EXCEPT !.pc = after_get(memCalls[p])]]
        /\ UNCHANGED memVars
        /\ UNCHANGED notRace

\* db.get_conversation: the SELECT of the messages, a second statement
GetMessages(p) ==
    LET d == db_get_conversation(conversations, messages, memCalls[p].conv, TRUE,
                                 memCalls[p].limit)
    IN  /\ memCalls[p].pc = "dbMessages"
        /\ memCalls' = [memCalls EXCEPT ![p].pc = "cacheSet", ![p].read.messages = d.messages]
        /\ UNCHANGED memVars
        /\ UNCHANGED notRace

\* get_conversation_memory: trace_set of the assembled record, which is returned
GetStore(p) ==
    /\ memCalls[p].pc = "cacheSet"
    /\ redis' = trace_set(redis, memCalls[p].conv, FromDb(memCalls[p].read), TRUE)
    /\ memCalls' = [memCalls EXCEPT ![p] =
          [memCalls[p] EXCEPT
              !.pc = after_get(memCalls[p]),
              !.read = NoRead,
              !.returned = [served |-> "db",
                            message_count |-> memCalls[p].read.message_count,
                            messages |-> memCalls[p].read.messages]]]
    /\ UNCHANGED <<conversations, messages, users, userCache, nextId, lastSaved, got>>
    /\ UNCHANGED notRace

\* save_conversation_message: _extract_and_save_user_facts, return True
SaveFinish(p) ==
    LET call == memCalls[p]
        e == extract_and_save_user_facts(users, userCache, call.caller, call.m.content,
                                         TRUE, TRUE)
        extract == call.m.role = "user" /\ call.caller # "none"
    IN  /\ call.pc = "extract"
        /\ users' = IF extract THEN e.users ELSE users
        /\ userCache' = IF extract THEN e.userCache ELSE userCache
        /\ lastSaved' = [lastSaved EXCEPT ![call.conv] = [id |-> call.m.id, warm |-> FALSE]]
        /\ memCalls' = [memCalls EXCEPT ![p] =
              [IdleCall EXCEPT !.op = "save", !.ok = TRUE, !.m = call.m,
                               !.first = call.first, !.created = call.created]]
        /\ UNCHANGED <<conversations, messages, redis, nextId, got>>
        /\ UNCHANGED notRace

\* The calls tried: gets without a limit, saves of a user turn
RaceLimits == {0}
RaceInputs == {i \in SaveInputs : i.role = "user"}
MemRaceNext ==
    \/ \E p \in MemCallers, i \in RaceInputs :
          SaveBegin(p, "c1", i.role, i.content, i.tokens, i.caller)
    \/ \E p \in MemCallers, unique \in BOOLEAN : SaveCreate(p, unique)
    \/ \E p \in MemCallers : SaveSelect(p)
    \/ \E p \in MemCallers : SaveInsert(p)
    \/ \E p \in MemCallers : SaveUpdate(p)
    \/ \E p \in MemCallers : SaveUpdateFails(p)
    \/ \E p \in MemCallers : SaveInvalidate(p)
    \/ \E p \in MemCallers, limit \in RaceLimits : GetBegin(p, "c1", limit)
    \/ \E p \in MemCallers : GetCache(p)
    \/ \E p \in MemCallers : GetRow(p)
    \/ \E p \in MemCallers : GetMessages(p)
    \/ \E p \in MemCallers : GetStore(p)
    \/ \E p \in MemCallers : SaveFinish(p)

CacheExpire(c) ==
    /\ redis[c].present
    /\ redis' = [redis EXCEPT ![c] = NoEntry]
    /\ UNCHANGED <<conversations, messages, users, userCache, nextId, lastSaved, got>>
    /\ UNCHANGED notMem

\* delete_conversation_memory: UPDATE conversations SET is_active = FALSE,
\* then DEL conversation:{id}, whose error ends the call as False
delete_conversation_memory(r, cs, c, cacheUp, dbUp) ==
    [ok |-> dbUp /\ cacheUp /\ (cs[c].exists \/ cs[c].inactive),
     conversations |-> IF dbUp /\ cs[c].exists
                       THEN [cs EXCEPT ![c] = [NoRow EXCEPT !.inactive = TRUE]] ELSE cs,
     redis |-> IF dbUp /\ cacheUp THEN [r EXCEPT ![c] = NoEntry] ELSE r]

\* The place of a get_conversation_memory call among the calls: 1 right
\* after a save of the conversation that returned True, 2 right after such a
\* first call with the same limit, 0 otherwise
NthRead(c, limit) ==
    IF got.op = "save" /\ got.ok /\ got.conv = c THEN 1
    ELSE IF got.op = "get" /\ got.nth = 1 /\ got.conv = c /\ got.limit = limit THEN 2
    ELSE 0

\* get_conversation_memory, the Redis client answering the call or not
ReadConversation(c, limit, cacheUp) ==
    LET res == get_conversation_memory(redis, conversations, messages, c, limit, cacheUp, TRUE)
        nth == NthRead(c, limit)
    IN  /\ redis' = get_conversation_cache(redis, conversations, messages, c, limit,
                                            cacheUp, TRUE)
        /\ got' = [NoResult EXCEPT !.op = "get", !.conv = c, !.ok = res.ok,
                      !.served = res.served, !.limit = limit, !.messages = res.messages,
                      !.message_count = res.message_count,
                      !.total_tokens = res.total_tokens,
                      !.nth = nth, !.prevServed = IF nth = 2 THEN got.served ELSE "none",
                      !.cacheUp = cacheUp]
        /\ UNCHANGED <<conversations, messages, users, userCache, nextId, lastSaved>>
        /\ UNCHANGED notMem

DeleteConversation(c, cacheUp) ==
    LET res == delete_conversation_memory(redis, conversations, c, cacheUp, TRUE)
    IN  /\ conversations' = res.conversations
        /\ redis' = res.redis
        /\ got' = [NoResult EXCEPT !.op = "delete", !.conv = c, !.ok = res.ok,
                                   !.cacheUp = cacheUp]
        /\ UNCHANGED <<messages, users, userCache, nextId, lastSaved>>
        /\ UNCHANGED notMem

\* ---------------------------------------------------------------------
\* The backend session of the singleton OllamaManager with several chat
\* requests in one process (POST /chat/sync awaits _process_chat_async on
\* the server's event loop). A request runs without interruption between
\* its awaits of the backend.

ChatCallers == {"a", "b"}
MaxSessions == 3
MaxRequests == 2

NoSession == [current |-> 0, created |-> 0, closed |-> {}]
\* pc: idle, ready (session checked), generate (POST in flight), finally,
\* closing (awaiting session.close()), session: the one generate posts on;
\* outcome of the last generate
NoChat == [pc |-> "idle", session |-> 0, outcome |-> "none", requests |-> 0]

SessionIdle ==
    /\ ollama_session = NoSession
    /\ chatCalls = [p \in ChatCallers |-> NoChat]

\* _get_session: 'if self._session is None or self._session.closed:' makes
\* a new ClientSession
get_session(s) ==
    IF s.current = 0 \/ s.current \in s.closed
    THEN [s EXCEPT !.current = s.created + 1, !.created = s.created + 1]
    ELSE s

session_open(s) == s.current # 0 /\ s.current \notin s.closed

\* _process_chat_async up to 'await ollama_manager._get_session()'
ChatBegin(p) ==
    /\ chatCalls[p].pc = "idle"
    /\ chatCalls[p].requests < MaxRequests
    /\ get_session(ollama_session).created <= MaxSessions
    /\ ollama_session' = get_session(ollama_session)
    /\ chatCalls' = [chatCalls EXCEPT ![p] =
          [NoChat EXCEPT !.pc = "ready", !.requests = chatCalls[p].requests + 1]]
    /\ UNCHANGED notSession

\* generate: 'session = await self._get_session()' and the POST is sent
GenerateSend(p) ==
    /\ chatCalls[p].pc = "ready"
    /\ get_session(ollama_session).created <= MaxSessions
    /\ ollama_session' = get_session(ollama_session)
    /\ chatCalls' = [chatCalls EXCEPT ![p].pc = "generate",
                                      ![p].session = get_session(ollama_session).current]
    /\ UNCHANGED notSession

\* the POST ends: with the response, or with the client's error when the
\* session was closed under it
GenerateReceive(p) ==
    /\ chatCalls[p].pc = "generate"
    /\ chatCalls' = [chatCalls EXCEPT ![p].pc = "finally",
                                      ![p].outcome =
                                          IF chatCalls[p].session \in ollama_session.closed
                                          THEN "error" ELSE "ok"]
    /\ UNCHANGED ollama_session
    /\ UNCHANGED notSession

\* finally: 'await ollama_manager.close()' up to its await:
\* 'if self._session and not self._session.closed: await self._session.close()'
CloseSession(p) ==
    /\ chatCalls[p].pc = "finally"
    /\ IF session_open(ollama_session)
       THEN /\ ollama_session' = [ollama_session EXCEPT !.closed = @ \cup {ollama_session.current}]
            /\ chatCalls' = [chatCalls EXCEPT ![p].pc = "closing"]
       ELSE /\ chatCalls' = [chatCalls EXCEPT ![p].pc = "idle"]
            /\ UNCHANGED ollama_session
    /\ UNCHANGED notSession

\* close after its await: 'self._session = None'
CloseDone(p) ==
    /\ chatCalls[p].pc = "closing"
    /\ ollama_session' = [ollama_session EXCEPT !.current = 0]
    /\ chatCalls' = [chatCalls EXCEPT ![p].pc = "idle"]
    /\ UNCHANGED notSession

SessionNext ==
    \/ \E p \in ChatCallers : ChatBegin(p)
    \/ \E p \in ChatCallers : GenerateSend(p)
    \/ \E p \in ChatCallers : GenerateReceive(p)
    \/ \E p \in ChatCallers : CloseSession(p)
    \/ \E p \in ChatCallers : CloseDone(p)

\* ---------------------------------------------------------------------
\* get_database_manager with several requests on one event loop. A call
\* runs without interruption up to its await of init_pool (which awaits
\* asyncpg.create_pool); other calls run while it waits.

DbCallers == {"a", "b", "c"}
MaxDbCalls == 4

\* DatabaseManager.__init__: self.pool = None
NoManager == [set |-> FALSE, pool |-> "none", inits |-> 0, failed |-> FALSE]
NewManager == [set |-> TRUE, pool |-> "none", inits |-> 0, failed |-> FALSE]

\* pc: "idle" or "init_pool"; result: what the caller's last call gave
\* ("manager" or "raised"); pool: the pool of the manager it was handed;
\* afterFailure: the call began after an init_pool had raised
NoDbCall == [pc |-> "idle", result |-> "none", pool |-> "none", afterFailure |-> FALSE,
             calls |-> 0]

DbIdle ==
    /\ db_manager = NoManager
    /\ dbCalls = [p \in DbCallers |-> NoDbCall]

\* get_database_manager up to its first await: 'if _db_manager is None:'
\* creates the manager and assigns the global before init_pool is awaited;
\* otherwise the global is returned as it is.
get_database_manager(p) ==
    /\ dbCalls[p].pc = "idle"
    /\ dbCalls[p].calls < MaxDbCalls
    /\ IF ~db_manager.set
       THEN /\ db_manager' = NewManager
            /\ dbCalls' = [dbCalls EXCEPT ![p] =
                  [NoDbCall EXCEPT !.pc = "init_pool", !.calls = dbCalls[p].calls + 1]]
       ELSE /\ dbCalls' = [dbCalls EXCEPT ![p] =
                  [NoDbCall EXCEPT !.result = "manager", !.pool = db_manager.pool,
                                   !.afterFailure = db_manager.failed,
                                   !.calls = dbCalls[p].calls + 1]]
            /\ UNCHANGED db_manager
    /\ UNCHANGED notDb

\* init_pool: 'self.pool = await asyncpg.create_pool(...)'; an exception is
\* logged and re-raised, and get_database_manager lets it through with the
\* global left as it was assigned.
init_pool(p, ok) ==
    /\ dbCalls[p].pc = "init_pool"
    /\ db_manager' = [db_manager EXCEPT !.pool = IF ok THEN "ready" ELSE @,
                                        !.inits = @ + 1,
                                        !.failed = ~ok]
    /\ dbCalls' = [dbCalls EXCEPT ![p] =
          [dbCalls[p] EXCEPT !.pc = "idle",
                             !.result = IF ok THEN "manager" ELSE "raised",
                             !.pool = IF ok THEN "ready" ELSE "none"]]
    /\ UNCHANGED notDb

DbNext ==
    \/ \E p \in DbCallers : get_database_manager(p)
    \/ \E p \in DbCallers, ok \in BOOLEAN : init_pool(p, ok)

MemInit ==
    /\ conversations = [c \in ConvIds |-> NoRow]
    /\ messages = [c \in ConvIds |-> <<>>]
    /\ users = [u \in UserRows |-> NoUser]
    /\ redis = [c \in ConvIds |-> NoEntry]
    /\ userCache = [u \in UserRows |-> NoUserEntry]
    /\ nextId = 0
    /\ lastSaved = [c \in ConvIds |-> NoSave]
    /\ got = NoResult
    /\ memCalls = [p \in MemCallers |-> IdleCall]
    /\ DbIdle
    /\ SessionIdle

MemNext ==
    \/ \E c \in ConvIds, i \in SaveInputs :
          SaveMessage(c, i.role, i.content, i.tokens, i.caller, TRUE)
    \/ \E c \in ConvIds, limit \in Limits : GetConversation(c, limit)
    \/ \E c \in ConvIds : CacheExpire(c)

\* Saves, reads and deletes of one conversation, Redis and PostgreSQL answering
DelConvs == {"c1"}
MemDelNext ==
    \/ \E c \in DelConvs, i \in SaveInputs, unique \in BOOLEAN :
          SaveMessage(c, i.role, i.content, i.tokens, i.caller, unique)
    \/ \E c \in DelConvs, limit \in Limits : ReadConversation(c, limit, TRUE)
    \/ \E c \in DelConvs : DeleteConversation(c, TRUE)
    \/ \E c \in DelConvs : CacheExpire(c)


\* ---------------------------------------------------------------------
\* RateLimiter. Times (time.time(), the scores of the sorted set) are
\* counted in ticks of 1/TicksPerSecond second; limits, windows, TTLs and
\* retry_after are whole seconds as in the code.
\* ---------------------------------------------------------------------
Max(a, b) == IF a >= b THEN a ELSE b
Min(a, b) == IF a <= b THEN a ELSE b

\* int(x) of Python, x a number of ticks: the whole seconds, truncated toward zero
int_seconds(x) == IF x >= 0 THEN x \div TicksPerSecond ELSE 0 - ((0 - x) \div TicksPerSecond)

\* ZREMRANGEBYSCORE key lo hi: drop the members with lo <= score <= hi
zremrangebyscore(w, lo, hi) == SelectSeq(w, LAMBDA sc : ~(lo <= sc /\ sc <= hi))

RECURSIVE zadd(_, _, _)
\* cost ZADDs that all name the same member: one entry
zadd_same_member(w, score, cost) == IF cost = 0 THEN w ELSE Append(w, score)
\* cost ZADDs, each of a new member named after time_ns(), scored current_time
zadd(w, score, cost) == IF cost = 0 THEN w ELSE zadd(Append(w, score), score, cost - 1)

\* if current_count + cost > limit
over_limit_ge(count, cost, limit) == count + cost >= limit
over_limit(count, cost, limit) == count + cost > limit

\* retry_after = int(oldest_request[0][1] + window_seconds - current_time);
\* retry_after = max(1, retry_after)
retry_after_unfloored(oldest, window_seconds, current_time) ==
    int_seconds(oldest + window_seconds * TicksPerSecond - current_time)
retry_after(oldest, window_seconds, current_time) ==
    Max(1, int_seconds(oldest + window_seconds * TicksPerSecond - current_time))

\* The commands of check_rate_limit that can end in an error of the Redis
\* client: the prune-and-count pipeline, the ZRANGE of the oldest entry and
\* the ZADD/EXPIRE pipeline
StoreSteps == {"prune", "oldest", "append"}

\* except Exception: log and return True (fail open)
store_error_outcome_raise(step) == "error"
store_error_outcome(step) == "allowed"

\* A sorted set that loses its last member is deleted, and its TTL with it
ttl_of(w, expire) == IF w = <<>> THEN 0 ELSE expire

\* check_rate_limit: the outcome, retry_after and the key afterwards. `fail`
\* names the command that ends in an error of the Redis client ("none": no
\* error); `landed` tells whether the server had run that command before the
\* error (a reply lost or timed out) or not (no connection).
check_rate_limit(w, expire, limit, window_seconds, cost, current_time, fail, landed) ==
    LET window_start == current_time - window_seconds * TicksPerSecond
        pruned == zremrangebyscore(w, 0, window_start)
        current_count == Len(pruned)
        added == zadd(pruned, current_time, cost)
        expires == current_time + (window_seconds + 1) * TicksPerSecond
    IN  IF fail = "prune"
        THEN [outcome |-> store_error_outcome(fail), retry_after |-> 0, storeFailed |-> TRUE,
              window |-> IF landed THEN pruned ELSE w,
              expire |-> IF landed THEN ttl_of(pruned, expire) ELSE expire]
        ELSE IF over_limit(current_count, cost, limit)
        THEN IF fail = "oldest"
             THEN [outcome |-> store_error_outcome(fail), retry_after |-> 0,
                   storeFailed |-> TRUE,
                   window |-> pruned, expire |-> ttl_of(pruned, expire)]
             ELSE [outcome |-> "exceeded",
                   retry_after |-> IF pruned # <<>>
                                   THEN retry_after(pruned[1], window_seconds, current_time)
                                   ELSE window_seconds,
                   storeFailed |-> FALSE,
                   window |-> pruned, expire |-> ttl_of(pruned, expire)]
        ELSE IF fail = "append"
        THEN [outcome |-> store_error_outcome(fail), retry_after |-> 0, storeFailed |-> TRUE,
              window |-> IF landed THEN added ELSE pruned,
              expire |-> IF landed THEN expires ELSE ttl_of(pruned, expire)]
        ELSE [outcome |-> "allowed", retry_after |-> 0, storeFailed |-> FALSE,
              window |-> added, expire |-> expires]

\* check_user_rate_limit of the API dependencies: any exception of the
\* limiter becomes a 429 reply
check_user_rate_limit(outcome) == IF outcome = "allowed" THEN "passed" ELSE "429"

\* TTL key, in seconds as Redis rounds them; -2 without the key
ttl_seconds(w, expire, current_time) ==
    IF w = <<>> \/ expire = 0 THEN 0 - 2
    ELSE (2 * (expire - current_time) + TicksPerSecond) \div (2 * TicksPerSecond)

\* get_rate_limit_status: the reply and the key afterwards; an error of the
\* Redis client gives the reply of an unused key
get_rate_limit_status(w, expire, limit, window_seconds, current_time, up) ==
    LET window_start == current_time - window_seconds * TicksPerSecond
        pruned == zremrangebyscore(w, 0, window_start)
        current_count == Len(pruned)
        ttl == ttl_seconds(pruned, expire, current_time)
    IN  IF ~up
        THEN [remaining |-> limit,
              reset_time |-> int_seconds(current_time + window_seconds * TicksPerSecond),
              window |-> w, expire |-> expire]
        ELSE [remaining |-> Max(0, limit - current_count),
              reset_time |-> IF ttl > 0
                             THEN int_seconds(current_time + ttl * TicksPerSecond)
                             ELSE int_seconds(current_time + window_seconds * TicksPerSecond),
              window |-> pruned, expire |-> ttl_of(pruned, expire)]

NoRun == [count |-> 0, start |-> 0, cost1 |-> TRUE]
NoCheck == [op |-> "none", key |-> "minute", outcome |-> "none", retry_after |-> 0,
            cost |-> 0, index |-> 0, start |-> 0, cost1 |-> FALSE,
            due |-> {}, over |-> FALSE, storeFailed |-> "none", reply |-> "none",
            remaining |-> 0, reset_time |-> 0, recorded |-> {}, raisedBy |-> "none"]

\* oldest_ts + window - now, in ticks, for the oldest score of w that a prune
\* at current_time leaves in the window ({}: no score is left)
DueOfOldest(w, window_seconds, current_time) ==
    LET live == {w[i] : i \in 1..Len(w)} \cap
                {sc \in 0..current_time : sc > current_time - window_seconds * TicksPerSecond}
    IN  IF live = {} THEN {}
        ELSE {(CHOOSE sc \in live : \A o \in live : sc <= o)
                  + window_seconds * TicksPerSecond - current_time}

\* What a call of check_rate_limit on key k leaves behind for its caller
CheckResult(k, cost, fail, res) ==
    [NoCheck EXCEPT !.op = "check", !.key = k, !.outcome = res.outcome,
                    !.retry_after = res.retry_after, !.cost = cost,
                    !.due = DueOfOldest(rlWindow[k], rlConf[k].window, now),
                    !.over = Cardinality({i \in 1..Len(rlWindow[k]) :
                                 rlWindow[k][i] > now - rlConf[k].window * TicksPerSecond})
                                 + cost > rlConf[k].limit,
                    !.storeFailed = IF res.storeFailed THEN fail ELSE "none",
                    !.reply = check_user_rate_limit(res.outcome)]

\* One call of check_rate_limit(key, limit, window_seconds, cost), made
\* through check_user_rate_limit, Redis answering
Check(k, cost) ==
    LET res == check_rate_limit(rlWindow[k], rlExpire[k], rlConf[k].limit,
                                rlConf[k].window, cost, now, "none", FALSE)
        cold == zremrangebyscore(rlWindow[k], 0, now - rlConf[k].window * TicksPerSecond) = <<>>
        run == IF cold THEN [count |-> 1, start |-> now, cost1 |-> cost = 1]
               ELSE [count |-> Min(rlRun[k].count + 1, rlConf[k].limit + 2),
                     start |-> rlRun[k].start,
                     cost1 |-> rlRun[k].cost1 /\ cost = 1]
    IN  /\ rlWindow' = [rlWindow EXCEPT ![k] = res.window]
        /\ rlExpire' = [rlExpire EXCEPT ![k] = res.expire]
        /\ rlRun' = [rlRun EXCEPT ![k] = run]
        /\ rlGot' = [CheckResult(k, cost, "none", res) EXCEPT
                        !.index = run.count, !.start = run.start, !.cost1 = run.cost1]
        /\ UNCHANGED <<now, rlConf, rlCalls>>
        /\ UNCHANGED notRL

\* One call of check_rate_limit during which Redis answers every command
\* (fail = "none") or ends one of them in an error
CheckStore(k, cost, fail, landed) ==
    LET res == check_rate_limit(rlWindow[k], rlExpire[k], rlConf[k].limit,
                                rlConf[k].window, cost, now, fail, landed)
    IN  /\ rlWindow' = [rlWindow EXCEPT ![k] = res.window]
        /\ rlExpire' = [rlExpire EXCEPT ![k] = res.expire]
        /\ rlGot' = CheckResult(k, cost, fail, res)
        /\ UNCHANGED <<now, rlConf, rlRun, rlCalls>>
        /\ UNCHANGED notRL

\* One call of get_rate_limit_status(key, limit, window_seconds)
Status(k, limit, window_seconds, up) ==
    LET res == get_rate_limit_status(rlWindow[k], rlExpire[k], limit, window_seconds, now, up)
    IN  /\ rlWindow' = [rlWindow EXCEPT ![k] = res.window]
        /\ rlExpire' = [rlExpire EXCEPT ![k] = res.expire]
        /\ rlGot' = [NoCheck EXCEPT !.op = "status", !.key = k,
                        !.remaining = res.remaining, !.reset_time = res.reset_time]
        /\ UNCHANGED <<now, rlConf, rlRun, rlCalls>>
        /\ UNCHANGED notRL

\* Two requests in the middle of check_rate_limit at once (coroutines of one
\* process at an await, or processes). Each pipeline is one MULTI/EXEC; the
\* commands between are the caller's own.
RLCallers == {"a", "b"}
NoCall0 == [pc |-> "idle", key |-> "minute", cost |-> 0, current_time |-> 0,
            current_count |-> 0, outcome |-> "none"]

\* ZADD of cost members scored `score` into a set kept in score order
zadd_sorted(w, score, cost) ==
    zadd(SelectSeq(w, LAMBDA sc : sc <= score), score, cost)
        \o SelectSeq(w, LAMBDA sc : sc > score)

\* The first pipeline of a call: the prune and the count, at current_time
CheckBegin(p, k, cost) ==
    LET pruned == zremrangebyscore(rlWindow[k], 0, now - rlConf[k].window * TicksPerSecond)
    IN  /\ rlCalls[p].pc = "idle"
        /\ rlWindow' = [rlWindow EXCEPT ![k] = pruned]
        /\ rlExpire' = [rlExpire EXCEPT ![k] = ttl_of(pruned, rlExpire[k])]
        /\ rlCalls' = [rlCalls EXCEPT ![p] =
                          [pc |-> IF over_limit(Len(pruned), cost, rlConf[k].limit)
                                  THEN "oldest" ELSE "append",
                           key |-> k, cost |-> cost, current_time |-> now,
                           current_count |-> Len(pruned), outcome |-> "none"]]
        /\ UNCHANGED <<now, rlConf, rlRun, rlGot>>
        /\ UNCHANGED notRL

\* The ZRANGE of a call over the limit, which then raises RateLimitExceeded
CheckOldest(p) ==
    /\ rlCalls[p].pc = "oldest"
    /\ rlCalls' = [rlCalls EXCEPT ![p].pc = "idle", ![p].outcome = "exceeded"]
    /\ UNCHANGED <<now, rlConf, rlWindow, rlExpire, rlRun, rlGot>>
    /\ UNCHANGED notRL

\* The second pipeline of a call within the limit: the ZADDs, scored with
\* the current_time of the call, and EXPIRE key window_seconds + 1
CheckAppend(p) ==
    LET k == rlCalls[p].key
    IN  /\ rlCalls[p].pc = "append"
        /\ rlWindow' = [rlWindow EXCEPT ![k] = zadd_sorted(@, rlCalls[p].current_time,
                                                           rlCalls[p].cost)]
        /\ rlExpire' = [rlExpire EXCEPT ![k] = now + (rlConf[k].window + 1) * TicksPerSecond]
        /\ rlCalls' = [rlCalls EXCEPT ![p].pc = "idle", ![p].outcome = "allowed"]
        /\ UNCHANGED <<now, rlConf, rlRun, rlGot>>
        /\ UNCHANGED notRL

\* A tick passes; a key whose TTL has run out is deleted by Redis
Tick ==
    /\ now < MaxTime
    /\ now' = now + 1
    /\ rlWindow' = [k \in RLKeys |->
                      IF rlExpire[k] # 0 /\ rlExpire[k] <= now + 1 THEN <<>> ELSE rlWindow[k]]
    /\ rlExpire' = [k \in RLKeys |->
                      IF rlExpire[k] # 0 /\ rlExpire[k] <= now + 1 THEN 0 ELSE rlExpire[k]]
    /\ UNCHANGED <<rlConf, rlRun, rlCalls, rlGot>>
    /\ UNCHANGED notRL

RLIdle ==
    /\ now = 0
    /\ rlConf = [k \in RLKeys |-> [limit |-> 1, window |-> 1]]
    /\ rlWindow = [k \in RLKeys |-> <<>>]
    /\ rlExpire = [k \in RLKeys |-> 0]
    /\ rlRun = [k \in RLKeys |-> NoRun]
    /\ rlCalls = [p \in RLCallers |-> NoCall0]
    /\ rlGot = NoCheck

RLInit ==
    /\ now = 0
    /\ rlConf \in [RLKeys -> [limit : 0..MaxRLimit, window : 1..MaxWindow]]
    /\ rlWindow = [k \in RLKeys |-> <<>>]
    /\ rlExpire = [k \in RLKeys |-> 0]
    /\ rlRun = [k \in RLKeys |-> NoRun]
    /\ rlCalls = [p \in RLCallers |-> NoCall0]
    /\ rlGot = NoCheck

RLNext ==
    \/ \E k \in RLKeys, cost \in 1..MaxCost : Check(k, cost)
    \/ Tick

\* The gate of the API routes (check_user_rate_limit of the dependencies):
\* rate_limiter.check_user_rate_limit(user_id), which checks the user's
\* minute key and then the user's hour key, then check_global_rate_limit;
\* the first check that raises ends the gate, which answers 429.
GateKeys == <<"user:minute", "user:hour", "global:minute">>
\* window_seconds of the minute keys and of the hour key
MinuteWindow == 60
HourWindow == 3600
\* global_limit = settings.rate_limit_per_minute * 50
GlobalUsers == 50
MaxGateTime == 300

RECURSIVE gate_checks(_, _, _, _, _, _)
\* The checks of the gate from the i-th on: the windows and expiries they
\* leave, the key whose check raised ("none": the request passes) and the
\* keys that hold an entry of this request
gate_checks(i, w, expire, conf, cost, current_time) ==
    IF i > Len(GateKeys)
    THEN [window |-> w, expire |-> expire, raisedBy |-> "none", recorded |-> {}]
    ELSE LET k == GateKeys[i]
             res == check_rate_limit(w[k], expire[k], conf[k].limit, conf[k].window, cost,
                                     current_time, "none", FALSE)
             w1 == [w EXCEPT ![k] = res.window]
             e1 == [expire EXCEPT ![k] = res.expire]
             rest == gate_checks(i + 1, w1, e1, conf, cost, current_time)
         IN  IF res.outcome = "exceeded"
             THEN [window |-> w1, expire |-> e1, raisedBy |-> k, recorded |-> {}]
             ELSE [rest EXCEPT !.recorded = @ \cup {k}]

\* One request through the gate
Gate ==
    LET res == gate_checks(1, rlWindow, rlExpire, rlConf, 1, now)
    IN  /\ rlWindow' = res.window
        /\ rlExpire' = res.expire
        /\ rlGot' = [NoCheck EXCEPT !.op = "gate", !.cost = 1,
                        !.outcome = IF res.raisedBy = "none" THEN "allowed" ELSE "exceeded",
                        !.reply = IF res.raisedBy = "none" THEN "passed" ELSE "429",
                        !.raisedBy = res.raisedBy, !.recorded = res.recorded]
        /\ UNCHANGED <<now, rlConf, rlRun, rlCalls>>
        /\ UNCHANGED notRL

\* Time passes between two requests; the keys whose TTL has run out are
\* deleted by Redis
GateWait(seconds) ==
    LET later == now + seconds * TicksPerSecond
        gone(k) == rlExpire[k] # 0 /\ rlExpire[k] <= later
    IN  /\ later <= MaxGateTime * TicksPerSecond
        /\ now' = later
        /\ rlWindow' = [k \in DOMAIN rlWindow |-> IF gone(k) THEN <<>> ELSE rlWindow[k]]
        /\ rlExpire' = [k \in DOMAIN rlExpire |-> IF gone(k) THEN 0 ELSE rlExpire[k]]
        /\ UNCHANGED <<rlConf, rlRun, rlCalls, rlGot>>
        /\ UNCHANGED notRL

GateNext ==
    \/ Gate
    \/ \E seconds \in {MinuteWindow} : GateWait(seconds)

\* settings.rate_limit_per_minute and settings.rate_limit_per_hour, as set,
\* the hour allowing more than the minute
GateInit ==
    /\ now = 0
    /\ \E per_minute \in 1..MaxRLimit, per_hour \in 2..(MaxRLimit + 1) :
          per_hour > per_minute /\ rlConf = [k \in {GateKeys[i] : i \in 1..Len(GateKeys)} |->
                       IF k = "user:minute"
                       THEN [limit |-> per_minute, window |-> MinuteWindow]
                       ELSE IF k = "user:hour"
                       THEN [limit |-> per_hour, window |-> HourWindow]
                       ELSE [limit |-> per_minute * GlobalUsers, window |-> MinuteWindow]]
    /\ rlWindow = [k \in {GateKeys[i] : i \in 1..Len(GateKeys)} |-> <<>>]
    /\ rlExpire = [k \in {GateKeys[i] : i \in 1..Len(GateKeys)} |-> 0]
    /\ rlRun = [k \in RLKeys |-> NoRun]
    /\ rlCalls = [p \in RLCallers |-> NoCall0]
    /\ rlGot = NoCheck

\* The limiter with two callers, each call in its steps
RLRaceNext ==
    \/ \E p \in RLCallers, k \in RLKeys, cost \in 1..MaxCost : CheckBegin(p, k, cost)
    \/ \E p \in RLCallers : CheckOldest(p)
    \/ \E p \in RLCallers : CheckAppend(p)
    \/ Tick

\* The limiter with status queries and with Redis failing some commands
RLStoreNext ==
    \/ \E k \in RLKeys, cost \in 1..MaxCost, fail \in StoreSteps \cup {"none"},
          landed \in BOOLEAN : CheckStore(k, cost, fail, landed)
    \/ \E k \in RLKeys, window_seconds \in 1..MaxWindow, up \in BOOLEAN :
          Status(k, rlConf[k].limit, window_seconds, up)
    \/ Tick

\* ---------------------------------------------------------------------
\* Celery chat tasks: create_chat_task, the two worker tasks, the result
\* backend and get_task_status
\* ---------------------------------------------------------------------
\* max_retries of process_chat_task and of process_streaming_chat_task
ChatMaxRetries == 3
StreamMaxRetries == 2
\* get_conversation_memory(conversation_id, limit=10) of _build_context_prompt
ContextLimit == 10

TaskIds == {"t1", "t2"}
TaskKinds == {"chat", "stream"}
\* The user_id of a task request (check_user_rate_limit always yields one)
TaskUser == "u1"
\* A prompt: the marker phrases it contains and len(prompt.split())
Prompts == { [content |-> {"python"}, words |-> 2] }
\* The conversation_id of the requests
TaskConvs == {"c1"}
\* What the backend generates: the text (by its marker phrases) and the
\* Optional[int] eval_count
Responses == { [response |-> {"privet"}, eval_count |-> {}],
               [response |-> {}, eval_count |-> {2}] }
NoResponse == [response |-> {}, eval_count |-> {}]
\* How an execution can fail: a connection or timeout error of the backend,
\* OllamaModelNotFoundError, or ChatTaskRequest(**task_request) rejecting the request
TaskErrors == {"transient", "notfound", "invalid"}
NonTransient == {"notfound", "invalid"}

\* str(exc)
ExcText(err) ==
    CASE err = "transient" -> "Max retries exceeded: Cannot connect to host"
      [] err = "notfound" -> "Model 'llama3' not found"
      [] err = "invalid" -> "1 validation error for ChatTaskRequest"
      [] err = "softlimit" -> "SoftTimeLimitExceeded()"
      [] err = "callback" -> "Cannot connect to host callback"
      [] OTHER -> "TimeLimitExceeded"

\* task.result of a task without stored result (None)
NoTaskResult == [error |-> FALSE, message |-> "", response |-> {}]
NoTask == [phase |-> "new", kind |-> "chat", conv |-> "c1",
           prompt |-> [content |-> {}, words |-> 0],
           state |-> "PENDING", result |-> NoTaskResult,
           retries |-> 0, executions |-> 0, failed |-> 0,
           lastError |-> "none", nonTransient |-> FALSE,
           text |-> NoResponse, sent |-> "none", ids |-> <<>>, storeOk |-> TRUE,
           cancelled |-> FALSE, expired |-> FALSE,
           callback |-> FALSE, received |-> <<>>, accumulated |-> "", undelivered |-> {}]

max_retries(kind) == IF kind = "chat" THEN ChatMaxRetries ELSE StreamMaxRetries

\* if self.request.retries < self.max_retries
retry_allowed_le(retries, max) == retries <= max
retry_allowed(retries, max) == retries < max

\* The "message" of the dict returned once the retries are used up
failure_message(kind, exc) ==
    IF kind = "chat"
    THEN "Task failed after " \o ToString(ChatMaxRetries) \o " retries: " \o exc
    ELSE "Streaming task failed: " \o exc

\* An execution that never gives up its message: the retry is queued
\* without being counted
task_failed_uncounted(tk, err) ==
    [tk EXCEPT !.phase = "queued", !.state = "RETRY", !.executions = @ - 1]

\* except Exception as exc: retry, or return the error dict (which Celery
\* stores as the result of a SUCCESS)
task_failed(tk, err) ==
    LET seen == [tk EXCEPT !.failed = @ + 1, !.lastError = err,
                           !.nonTransient = @ \/ err \in NonTransient]
    IN  IF retry_allowed(tk.retries, max_retries(tk.kind))
        THEN [seen EXCEPT !.phase = "queued", !.state = "RETRY", !.retries = @ + 1,
                          !.result = [NoTaskResult EXCEPT !.message = ExcText(err)]]
        ELSE [seen EXCEPT !.phase = "done", !.state = "SUCCESS",
                          !.result = [error |-> TRUE,
                                      message |-> failure_message(tk.kind, ExcText(err)),
                                      response |-> {}]]

\* An execution whose message is delivered again after it has returned
task_succeeded_redelivered(tk, resp) ==
    [tk EXCEPT !.phase = "queued", !.state = "SUCCESS",
               !.result = [error |-> FALSE, message |-> "", response |-> resp.response]]

\* return chat_response.dict(), stored as the result of a SUCCESS
task_succeeded(tk, resp) ==
    [tk EXCEPT !.phase = "done", !.state = "SUCCESS",
               !.result = [error |-> FALSE, message |-> "", response |-> resp.response]]

\* get_task_status: the status, error and result of the reply
get_task_status(tk) ==
    CASE tk.state = "PENDING" ->
            [status |-> "processing", error |-> "", result |-> NoTaskResult]
      [] tk.state = "SUCCESS" ->
            IF tk.result.error
            THEN [status |-> "failed", error |-> tk.result.message, result |-> NoTaskResult]
            ELSE [status |-> "completed", error |-> "", result |-> tk.result]
      [] tk.state = "FAILURE" ->
            [status |-> "failed",
             error |-> IF tk.result.message # "" THEN tk.result.message ELSE "Unknown error",
             result |-> NoTaskResult]
      [] tk.state = "RETRY" ->
            [status |-> "retrying", error |-> "", result |-> NoTaskResult]
      [] OTHER ->
            [status |-> "revoked", error |-> "", result |-> NoTaskResult]

\* get_user_memory: a miss of user:{id} reads (or creates) the users row
\* and caches it
get_user_memory_users(uc, us, u, cacheUp, dbUp) ==
    IF (cacheUp /\ uc[u].present) \/ ~cacheUp \/ ~dbUp THEN us ELSE get_or_create_user(us, u)

get_user_memory_cache(uc, us, u, cacheUp, dbUp) ==
    IF (cacheUp /\ uc[u].present) \/ ~cacheUp \/ ~dbUp THEN uc
    ELSE LET row == get_or_create_user(us, u)[u]
         IN  [uc EXCEPT ![u] = [present |-> TRUE, facts |-> row.facts,
                                language |-> row.language]]

\* _extract_and_save_user_facts of the worker: keyword extraction over the prompt
WorkerFactsOf(content) ==
    IF "python" \in content THEN <<"prog:python">> ELSE <<>>

worker_extract_users(us, u, content) ==
    LET us1 == IF "na russkom" \in content THEN db_update_user_preferences(us, u, "ru") ELSE us
    IN  AddFacts(us1, u, WorkerFactsOf(content))

worker_extract_user_cache(uc, us, u, content, cacheUp) ==
    IF cacheUp /\ (worker_extract_users(us, u, content) # us
                   \/ (us[u].exists /\ "na russkom" \in content))
    THEN [uc EXCEPT ![u] = NoUserEntry] ELSE uc

\* The two ConversationMessage objects of _save_conversation_messages
user_message(id, prompt) ==
    [id |-> id, role |-> "user", content |-> prompt.content, tokens |-> {prompt.words}]
assistant_message_as_user(id, resp) ==
    [id |-> id, role |-> "user", content |-> resp.response,
     tokens |-> {Coalesce0(resp.eval_count)}]
assistant_message(id, resp) ==
    [id |-> id, role |-> "assistant", content |-> resp.response,
     tokens |-> {Coalesce0(resp.eval_count)}]

\* A task ended from outside its own code: what the result backend holds.
\* (The record of its executions is dropped with it.)
Ended(tk, state, result) ==
    [NoTask EXCEPT !.phase = "done", !.kind = tk.kind, !.conv = tk.conv,
                   !.prompt = tk.prompt, !.state = state, !.result = result]

\* create_chat_task: the task is sent to the queue of its kind
Submit(t, kind, c, prompt) ==
    /\ tasks[t].phase = "new"
    /\ tasks' = [tasks EXCEPT ![t] = [NoTask EXCEPT !.phase = "queued", !.kind = kind,
                                                    !.conv = c, !.prompt = prompt]]
    /\ UNCHANGED memVars
    /\ UNCHANGED notTask

\* A worker takes the message (first delivery, or the redelivery of a retry).
\* task_track_started is not set: the result backend is not written.
Start(t) ==
    /\ tasks[t].phase = "queued"
    /\ tasks' = [tasks EXCEPT ![t].phase = "running", ![t].executions = @ + 1]
    /\ UNCHANGED memVars
    /\ UNCHANGED notTask

\* process_chat_task up to the reply of the backend: the request is parsed,
\* _build_context_prompt reads the conversation and the user (filling the
\* caches on a miss; no system prompt is stored), generate is called.
GenerateChat(t, outcome, resp, pgUp) ==
    LET tk == tasks[t]
        c == tk.conv
    IN  /\ tk.phase = "running" /\ tk.kind = "chat"
        /\ IF outcome = "invalid"
           THEN UNCHANGED <<redis, users, userCache>>
           ELSE /\ redis' = get_conversation_cache(redis, conversations, messages, c,
                                                    ContextLimit, TRUE, pgUp)
                /\ users' = get_user_memory_users(userCache, users, TaskUser, TRUE, pgUp)
                /\ userCache' = get_user_memory_cache(userCache, users, TaskUser, TRUE, pgUp)
        /\ tasks' = [tasks EXCEPT ![t] =
                        IF outcome = "ok"
                        THEN [tk EXCEPT !.phase = "generated", !.text = resp,
                                        !.sent = "context"]
                        ELSE task_failed(tk, outcome)]
        /\ UNCHANGED <<conversations, messages, nextId, lastSaved, got>>
        /\ UNCHANGED notTask

\* _save_conversation_messages, first half: the user message
SaveUser(t, pgUp) ==
    LET tk == tasks[t]
        m == user_message(nextId + 1, tk.prompt)
        res == save_conversation_message(tk.conv, m, TaskUser, TRUE, pgUp, TRUE)
    IN  /\ tk.phase = "generated"
        /\ conversations' = res.conversations
        /\ messages' = res.messages
        /\ redis' = res.redis
        /\ users' = res.users
        /\ userCache' = res.userCache
        /\ nextId' = nextId + 1
        /\ lastSaved' = IF res.ok
                        THEN [lastSaved EXCEPT ![tk.conv] =
                                 [id |-> m.id, warm |-> redis[tk.conv].present]]
                        ELSE lastSaved
        /\ tasks' = [tasks EXCEPT ![t].phase = "savedUser", ![t].ids = Append(@, m.id),
                                  ![t].storeOk = @ /\ res.ok]
        /\ UNCHANGED got
        /\ UNCHANGED notTask

\* _save_conversation_messages, second half: the assistant message and the
\* worker's fact extraction; then the task returns chat_response.dict()
SaveAssistant(t, pgUp) ==
    LET tk == tasks[t]
        m == assistant_message(nextId + 1, tk.text)
        res == save_conversation_message(tk.conv, m, TaskUser, TRUE, pgUp, TRUE)
    IN  /\ tk.phase = "savedUser"
        /\ conversations' = res.conversations
        /\ messages' = res.messages
        /\ redis' = res.redis
        /\ users' = IF pgUp
                    THEN worker_extract_users(res.users, TaskUser, tk.prompt.content)
                    ELSE res.users
        /\ userCache' = IF pgUp
                        THEN worker_extract_user_cache(res.userCache, res.users, TaskUser,
                                                       tk.prompt.content, TRUE)
                        ELSE res.userCache
        /\ nextId' = nextId + 1
        /\ lastSaved' = IF res.ok
                        THEN [lastSaved EXCEPT ![tk.conv] =
                                 [id |-> m.id, warm |-> redis[tk.conv].present]]
                        ELSE lastSaved
        /\ tasks' = [tasks EXCEPT ![t] =
                        task_succeeded([tk EXCEPT !.ids = Append(@, m.id),
                                                  !.storeOk = @ /\ res.ok], tk.text)]
        /\ UNCHANGED got
        /\ UNCHANGED notTask

\* process_streaming_chat_task: the raw prompt is streamed
\* (prompt=task_request.chat_request.prompt) and the chunks are
\* accumulated; nothing is written to the memory. sent: the prompt given to
\* the backend, "context" for the one _build_context_prompt returned.
GenerateStream(t, outcome, resp) ==
    LET tk == tasks[t]
    IN  /\ tk.phase = "running" /\ tk.kind = "stream"
        /\ tasks' = [tasks EXCEPT ![t] =
                        IF outcome = "ok"
                        THEN task_succeeded([tk EXCEPT !.text = resp, !.sent = "raw"], resp)
                        ELSE task_failed(tk, outcome)]
        /\ UNCHANGED memVars
        /\ UNCHANGED notTask

\* time_limit of task_annotations: the pool process is killed and the
\* task is stored as a FAILURE
HardTimeLimit(t) ==
    /\ tasks[t].phase \in {"running", "generated", "savedUser"}
    /\ tasks' = [tasks EXCEPT ![t] = Ended(tasks[t], "FAILURE",
                                             [NoTaskResult EXCEPT !.message = ExcText("killed")])]
    /\ UNCHANGED memVars
    /\ UNCHANGED notTask

\* cancel_task: revoke(task_id, terminate=True) of a task that has not finished
Cancel(t) ==
    /\ tasks[t].phase \in {"queued", "running", "generated", "savedUser"}
    /\ tasks' = [tasks EXCEPT ![t] =
                    [Ended(tasks[t], "REVOKED", NoTaskResult) EXCEPT !.cancelled = TRUE]]
    /\ UNCHANGED memVars
    /\ UNCHANGED notTask

\* result_expires: the stored state and result of a finished task are dropped
Expire(t) ==
    /\ tasks[t].phase = "done" /\ ~tasks[t].expired
    /\ tasks' = [tasks EXCEPT ![t] =
                    [Ended(tasks[t], "PENDING", NoTaskResult) EXCEPT !.expired = TRUE]]
    /\ UNCHANGED memVars
    /\ UNCHANGED notTask

\* The steps of the workers on a task. soft_time_limit of task_annotations
\* raises SoftTimeLimitExceeded inside the task, where 'except Exception'
\* treats it as any other failure of the execution
WorkerErrors == TaskErrors \cup {"softlimit"}

WorkerStep(t) ==
    \/ Start(t)
    \/ \E outcome \in WorkerErrors \cup {"ok"}, resp \in Responses, pgUp \in BOOLEAN :
          GenerateChat(t, outcome, resp, pgUp)
    \/ \E pgUp \in BOOLEAN : SaveUser(t, pgUp)
    \/ \E pgUp \in BOOLEAN : SaveAssistant(t, pgUp)
    \/ \E outcome \in WorkerErrors \cup {"ok"}, resp \in Responses :
          GenerateStream(t, outcome, resp)

\* A task that nobody cancels, from submission to the expiry of the result
LiveTasks == {"t1"}
TaskLiveNext ==
    \/ \E t \in LiveTasks, kind \in TaskKinds, c \in TaskConvs, prompt \in Prompts :
          Submit(t, kind, c, prompt)
    \/ \E t \in LiveTasks : WorkerStep(t)
    \/ \E t \in LiveTasks : HardTimeLimit(t)
    \/ \E t \in LiveTasks : Expire(t)

\* The streaming task chunk by chunk. received: the fragments
\* (chunk.response) that generate_stream has yielded in this execution;
\* accumulated: accumulated_response; undelivered: the chunks whose POST to
\* callback_url failed.
MaxChunks == 3
Fragments == {"", "a", "b"}
StreamTasks == {"t1"}
\* The POST of a chunk to callback_url: answered, or raising (refused, or
\* no answer within ClientTimeout(total=5))
Deliveries == {"sent", "failed"}

RECURSIVE Concat(_)
Concat(s) == IF s = <<>> THEN "" ELSE Head(s) \o Concat(Tail(s))

\* _send_streaming_chunk, whether it raises: the body is one try whose
\* 'except Exception' logs a warning
send_streaming_chunk_uncaught(delivery) == delivery = "failed"
send_streaming_chunk(delivery) == FALSE

\* A new execution starts with accumulated_response = ""
stream_failed(tk, err) ==
    [task_failed(tk, err) EXCEPT !.received = <<>>, !.accumulated = "", !.undelivered = {}]

\* process_streaming_chat_task.delay(task_request, callback_url)
SubmitStream(t, c, prompt, callback) ==
    /\ tasks[t].phase = "new"
    /\ tasks' = [tasks EXCEPT ![t] = [NoTask EXCEPT !.phase = "queued", !.kind = "stream",
                                                    !.conv = c, !.prompt = prompt,
                                                    !.callback = callback]]
    /\ UNCHANGED memVars
    /\ UNCHANGED notTask

\* One turn of 'async for chunk in ollama_manager.generate_stream(...)'
StreamChunk(t, fragment, delivery) ==
    LET tk == tasks[t]
        failed == tk.callback /\ delivery = "failed"
        taken == [tk EXCEPT !.received = Append(@, fragment),
                            !.accumulated = @ \o fragment,
                            !.undelivered = IF failed THEN @ \cup {Len(tk.received) + 1}
                                            ELSE @]
    IN  /\ tk.phase = "running" /\ tk.kind = "stream"
        /\ Len(tk.received) < MaxChunks
        /\ tasks' = [tasks EXCEPT ![t] =
                        IF tk.callback /\ send_streaming_chunk(delivery)
                        THEN stream_failed(tk, "callback")
                        ELSE taken]
        /\ UNCHANGED memVars
        /\ UNCHANGED notTask

\* The stream of the backend ends: return chat_response.dict()
StreamEnd(t) ==
    LET tk == tasks[t]
    IN  /\ tk.phase = "running" /\ tk.kind = "stream"
        /\ tasks' = [tasks EXCEPT ![t] =
                        task_succeeded([tk EXCEPT !.sent = "raw"],
                                       [response |-> tk.accumulated, eval_count |-> {}])]
        /\ UNCHANGED memVars
        /\ UNCHANGED notTask

\* generate_stream raises, before the first chunk or between two chunks
StreamError(t, err) ==
    LET tk == tasks[t]
    IN  /\ tk.phase = "running" /\ tk.kind = "stream"
        /\ tasks' = [tasks EXCEPT ![t] = stream_failed(tk, err)]
        /\ UNCHANGED memVars
        /\ UNCHANGED notTask

StreamNext ==
    \/ \E t \in StreamTasks, c \in TaskConvs, prompt \in Prompts, callback \in BOOLEAN :
          SubmitStream(t, c, prompt, callback)
    \/ \E t \in StreamTasks : Start(t)
    \/ \E t \in StreamTasks, fragment \in Fragments, delivery \in Deliveries :
          StreamChunk(t, fragment, delivery)
    \/ \E t \in StreamTasks : StreamEnd(t)
    \/ \E t \in StreamTasks, err \in {"transient", "notfound"} : StreamError(t, err)

TaskIdle ==
    /\ tasks = [t \in TaskIds |-> NoTask]

TaskNext ==
    \/ \E t \in TaskIds, kind \in TaskKinds, c \in TaskConvs, prompt \in Prompts :
          Submit(t, kind, c, prompt)
    \/ \E t \in TaskIds : Start(t)
    \/ \E t \in TaskIds, outcome \in TaskErrors \cup {"ok"}, resp \in Responses, pgUp \in BOOLEAN :
          GenerateChat(t, outcome, resp, pgUp)
    \/ \E t \in TaskIds, pgUp \in BOOLEAN : SaveUser(t, pgUp)
    \/ \E t \in TaskIds, pgUp \in BOOLEAN : SaveAssistant(t, pgUp)
    \/ \E t \in TaskIds, outcome \in TaskErrors \cup {"ok"}, resp \in Responses :
          GenerateStream(t, outcome, resp)
    \/ \E t \in TaskIds : HardTimeLimit(t)
    \/ \E t \in TaskIds : Cancel(t)
    \/ \E t \in TaskIds : Expire(t)


\* ---------------------------------------------------------------------
\* User memory and the context prompt, the stores answering or not
\* ---------------------------------------------------------------------
Languages == {"ru", "en"}
UserFacts == {"prog:python", "likes tea"}
\* preferences['temperature'] of a users row: absent, a number up to 0.7, a
\* number above it, or a JSON value that is no number
Temperatures == {"none", "low", "high", "text"}
\* What get_active_system_prompt does: returns None, returns an entry with
\* content, returns an entry whose content is empty, raises
ActivePrompts == {"none", "A", "empty", "error"}

\* get_user_memory, the UserMemory returned: the cached profile; on a miss
\* the users row; UserMemory(user_id=user_id) when redis_client.get or a
\* PostgreSQL command raises
get_user_memory(uc, us, u, cacheUp, dbUp) ==
    IF ~cacheUp THEN [served |-> "none", profile |-> NoProfile]
    ELSE IF uc[u].present
    THEN [served |-> "cache", profile |-> [facts |-> uc[u].facts, language |-> uc[u].language]]
    ELSE IF ~dbUp THEN [served |-> "none", profile |-> NoProfile]
    ELSE LET row == get_or_create_user(us, u)[u]
         IN  [served |-> "db", profile |-> [facts |-> row.facts, language |-> row.language]]

\* update_user_preferences: the UPDATE, then redis_client.delete(user:{id})
\* when a row was updated; False when either raises
update_user_preferences(uc, us, u, lang, cacheUp, dbUp) ==
    LET success == dbUp /\ us[u].exists
    IN  [ok |-> success /\ cacheUp,
         users |-> IF dbUp THEN db_update_user_preferences(us, u, lang) ELSE us,
         userCache |-> IF success /\ cacheUp THEN [uc EXCEPT ![u] = NoUserEntry] ELSE uc]

\* add_user_fact: the same around array_append
add_user_fact(uc, us, u, fact, cacheUp, dbUp) ==
    LET success == dbUp /\ db_add_user_fact(us, u, fact) # us
    IN  [ok |-> success /\ cacheUp,
         users |-> IF dbUp THEN db_add_user_fact(us, u, fact) ELSE us,
         userCache |-> IF success /\ cacheUp THEN [uc EXCEPT ![u] = NoUserEntry] ELSE uc]

RECURSIVE Reverse(_)
\* s[::-1]
Reverse(s) == IF s = <<>> THEN <<>> ELSE Append(Reverse(Tail(s)), Head(s))

\* return f"Polzovatel: {user_prompt}\n\nAssistent:"
fallback_prompt(user_prompt) == [NoBlocks EXCEPT !.question = user_prompt]

\* user_memory.preferences['temperature'] > 0.7, which raises for a value
\* that is no number
style_of(temperature) ==
    IF temperature = "none" THEN "none"
    ELSE IF temperature = "high" THEN "creative" ELSE "precise"

\* [msg for msg in conversation.messages if msg.role != "system"][-6:][::-1]
recent_messages(msgs) ==
    LET turns == Reverse(LastN(SelectSeq(msgs, LAMBDA m : m.role # "system"), 6))
    IN  [i \in 1..Len(turns) |-> [role |-> turns[i].role, content |-> turns[i].content]]

\* _build_context_prompt. conversation: the result of get_conversation_memory
\* (ok FALSE: None); user: the result of get_user_memory, has_user telling
\* whether a user_id was given; active: what get_active_system_prompt did;
\* temperature: the temperature among the preferences of the profile.
build_context_prompt(conversation, has_user, user, temperature, active, user_prompt, model) ==
    LET profile == user.profile
        prefs == has_user /\ (profile.language # "none" \/ temperature # "none")
    IN  IF prefs /\ temperature = "text"
        THEN fallback_prompt(user_prompt)
        ELSE [layout |-> "context",
              instructions |-> IF active \in {"none", "empty", "error"} THEN "none"
                               ELSE active,
              identity |-> model,
              language |-> IF prefs THEN profile.language ELSE "none",
              style |-> IF prefs THEN style_of(temperature) ELSE "none",
              facts |-> IF has_user THEN LastN(profile.facts, 3) ELSE <<>>,
              history |-> IF conversation.ok THEN recent_messages(conversation.messages)
                          ELSE <<>>,
              question |-> user_prompt]

\* The prompt line by line, as "\n".join(full_context) lays it out. block:
\* what the line belongs to; label: the role name of a turn; body: the
\* text (a content, by its marker phrases); items: the facts of the line.
Line(block, label, body, items) ==
    [block |-> block, label |-> label, body |-> body, items |-> items]
Header(text) == Line("header", "", {text}, <<>>)
Blank == Line("blank", "", {}, <<>>)
\* facts[-3:] and non_system_messages[-6:]
FactWindow == 3
TurnWindow == 6

\* conversation_context: the header and the recent turns, newest first
turn_lines_all(msgs) ==
    LET turns == Reverse(SelectSeq(msgs, LAMBDA m : m.role # "system"))
    IN  [i \in 1..Len(turns) |->
            Line("turn", IF turns[i].role = "user" THEN "user" ELSE "assistant",
                 turns[i].content, <<>>)]
turn_lines(msgs) ==
    LET turns == Reverse(LastN(SelectSeq(msgs, LAMBDA m : m.role # "system"), TurnWindow))
    IN  [i \in 1..Len(turns) |->
            Line("turn", IF turns[i].role = "user" THEN "user" ELSE "assistant",
                 turns[i].content, <<>>)]

context_lines(conversation, has_user, user, temperature, active, user_prompt, model) ==
    LET profile == user.profile
        prefs == has_user /\ (profile.language # "none" \/ temperature # "none")
        system_context ==
            (IF active \in {"none", "empty", "error"} THEN <<>>
             ELSE <<Header("SISTEMNYE INSTRUKCII:"),
                    Line("instructions", "", {"Nazvanie", active}, <<>>),
                    Line("instructions", "", {active}, <<>>), Blank>>)
            \o <<Line("identity", "", {model}, <<>>)>>
            \o (IF prefs
                THEN <<Line("preferences", "", {profile.language, style_of(temperature)}, <<>>)>>
                ELSE <<>>)
            \o (IF has_user /\ profile.facts # <<>>
                THEN <<Line("facts", "", {}, LastN(profile.facts, FactWindow))>>
                ELSE <<>>)
        conversation_context ==
            IF conversation.ok /\ conversation.messages # <<>>
            THEN <<Header("Istoriya dialoga:")>> \o turn_lines(conversation.messages)
            ELSE <<>>
    IN  IF prefs /\ temperature = "text"
        THEN <<Line("question", "user", user_prompt, <<>>), Blank, Header("Assistent:")>>
        ELSE <<Header("KONTEKST:")>> \o system_context \o <<Blank>>
             \o (IF conversation_context # <<>> THEN conversation_context \o <<Blank>>
                 ELSE <<>>)
             \o <<Header("TEKUSHCHIJ VOPROS:"), Line("question", "user", user_prompt, <<>>),
                  Blank, Header("Assistent:")>>

\* The retrievals of a _build_context_prompt call that failed
failed_retrievals(r, uc, us, c, u, active, cacheUp, dbUp) ==
    (IF ~trace_get(r, c, cacheUp).present /\ ~dbUp THEN {"conversation"} ELSE {})
        \cup (IF u # "none" /\ get_user_memory(uc, us, u, cacheUp, dbUp).served = "none"
              THEN {"user"} ELSE {})
        \cup (IF active = "error" THEN {"system_prompt"} ELSE {})

GetUser(u, cacheUp) ==
    LET res == get_user_memory(userCache, users, u, cacheUp, TRUE)
    IN  /\ users' = get_user_memory_users(userCache, users, u, cacheUp, TRUE)
        /\ userCache' = get_user_memory_cache(userCache, users, u, cacheUp, TRUE)
        /\ got' = [NoResult EXCEPT !.op = "get_user", !.user = u, !.ok = TRUE,
                                   !.served = res.served, !.profile = res.profile,
                                   !.cacheUp = cacheUp]
        /\ UNCHANGED <<conversations, messages, redis, nextId, lastSaved>>
        /\ UNCHANGED notMem

UpdateUserPreferences(u, lang, cacheUp) ==
    LET res == update_user_preferences(userCache, users, u, lang, cacheUp, TRUE)
    IN  /\ users' = res.users
        /\ userCache' = res.userCache
        /\ got' = [NoResult EXCEPT !.op = "update_user_preferences", !.user = u,
                                   !.arg = lang, !.ok = res.ok, !.cacheUp = cacheUp]
        /\ UNCHANGED <<conversations, messages, redis, nextId, lastSaved>>
        /\ UNCHANGED notMem

AddUserFact(u, fact, cacheUp) ==
    LET res == add_user_fact(userCache, users, u, fact, cacheUp, TRUE)
    IN  /\ users' = res.users
        /\ userCache' = res.userCache
        /\ got' = [NoResult EXCEPT !.op = "add_user_fact", !.user = u, !.arg = fact,
                                   !.ok = res.ok, !.cacheUp = cacheUp]
        /\ UNCHANGED <<conversations, messages, redis, nextId, lastSaved>>
        /\ UNCHANGED notMem

\* The TTL of a user:{id} key runs out (USER_CACHE_TTL)
UserCacheExpire(u) ==
    /\ userCache[u].present
    /\ userCache' = [userCache EXCEPT ![u] = NoUserEntry]
    /\ UNCHANGED <<conversations, messages, users, redis, nextId, lastSaved, got>>
    /\ UNCHANGED notMem

\* _extract_and_save_user_facts of the worker on a prompt
ExtractFacts(u, content) ==
    /\ users' = worker_extract_users(users, u, content)
    /\ userCache' = worker_extract_user_cache(userCache, users, u, content, TRUE)
    /\ got' = [NoResult EXCEPT !.op = "extract", !.user = u]
    /\ UNCHANGED <<conversations, messages, redis, nextId, lastSaved>>
    /\ UNCHANGED notMem

\* One call of _build_context_prompt(memory_manager, user_prompt,
\* conversation_id, user_id, model)
BuildPrompt(c, u, user_prompt, model, temperature, active, cacheUp, dbUp) ==
    LET conversation == get_conversation_memory(redis, conversations, messages, c,
                                                ContextLimit, cacheUp, dbUp)
        user == IF u = "none" THEN [served |-> "none", profile |-> NoProfile]
                ELSE get_user_memory(userCache, users, u, cacheUp, dbUp)
    IN  /\ redis' = get_conversation_cache(redis, conversations, messages, c, ContextLimit,
                                            cacheUp, dbUp)
        /\ users' = IF u = "none" THEN users
                    ELSE get_user_memory_users(userCache, users, u, cacheUp, dbUp)
        /\ userCache' = IF u = "none" THEN userCache
                        ELSE get_user_memory_cache(userCache, users, u, cacheUp, dbUp)
        /\ got' = [NoResult EXCEPT
                      !.op = "build_prompt", !.conv = c, !.user = u, !.cacheUp = cacheUp,
                      !.arg = active,
                      !.lines = context_lines(conversation, u # "none", user,
                                    IF user.served = "none" THEN "none" ELSE temperature,
                                    active, user_prompt, model),
                      !.failed = failed_retrievals(redis, userCache, users, c, u,
                                                   active, cacheUp, dbUp),
                      !.prompt = build_context_prompt(conversation, u # "none", user,
                                    IF user.served = "none" THEN "none" ELSE temperature,
                                    active, user_prompt, model)]
        /\ UNCHANGED <<conversations, messages, nextId, lastSaved>>
        /\ UNCHANGED notMem

\* ---------------------------------------------------------------------
\* OllamaManager: the model catalog cache, generate and generate_stream
\* ---------------------------------------------------------------------
MaxClock == 303
\* The backoff sleeps of a behaviour add up to at most this many seconds
MaxBackoff == 7
\* self._models_cache_ttl
ModelsCacheTtl == 300
\* settings.ollama_max_retries
OllamaMaxRetries == 3
ModelNames == {"llama3", "mistral"}
\* How long the client is left alone between two calls
Waits == {149, 151}

\* list_models: the cached catalog while it is younger than the TTL and not
\* empty; otherwise GET /api/tags, whose answer replaces the cache. A request
\* that fails (tagsOk = FALSE) raises and leaves the cache as it was.
cache_young(last, current_time) == last # 0 /\ current_time - last < ModelsCacheTtl
cache_valid(cache, last, force_refresh, current_time) ==
    /\ ~force_refresh
    /\ last # 0
    /\ current_time - last < ModelsCacheTtl
    /\ cache # {}

list_models(cache, last, force_refresh, current_time, tagsOk, served) ==
    IF cache_valid(cache, last, force_refresh, current_time)
    THEN [raised |-> FALSE, models |-> cache, cache |-> cache, last |-> last, tags |-> 0]
    ELSE IF ~tagsOk
    THEN [raised |-> TRUE, models |-> {}, cache |-> cache, last |-> last, tags |-> 1]
    ELSE [raised |-> FALSE, models |-> served, cache |-> served,
          last |-> current_time, tags |-> 1]

\* is_model_available: any(model.name == model_name ...), False on an exception
is_model_available_always(lm, model_name) == TRUE
is_model_available(lm, model_name) == ~lm.raised /\ model_name \in lm.models

\* The status of the answer to POST /api/generate
post_status(model, served, httpError) ==
    IF httpError THEN 500 ELSE IF model \in served THEN 200 ELSE 404

raised_for(status) ==
    IF status = 404 THEN "ModelNotFound"
    ELSE IF status # 200 THEN "ConnectionError"
    ELSE "none"

\* await asyncio.sleep(2 ** retry_count)
backoff_delay(retry_count) == 2 ^ retry_count

\* How a POST can fail below HTTP: "connection" is an aiohttp.ClientError
\* (refused, reset, disconnected); "timeout" is the asyncio.TimeoutError that
\* the session's ClientTimeout(total=...) raises, which is no ClientError
TransportErrors == {"connection", "timeout"}

\* error_text = await response.text(): the body the backend sends with a
\* status
response_text(status) ==
    CASE status = 404 -> "model not found"
      [] status = 500 -> "llama runner process has terminated"
      [] OTHER -> ""

\* f"Model '{request.model}' not found"
not_found_message(model) == "Model '" \o model \o "' not found"

\* The text of the exception raised for the status of the answer
exc_message_status_only(status, model) ==
    IF status = 404 THEN not_found_message(model)
    ELSE IF status # 200 THEN "Ollama API error " \o ToString(status)
    ELSE ""
exc_message(status, model) ==
    IF status = 404 THEN not_found_message(model)
    ELSE IF status # 200
    THEN "Ollama API error " \o ToString(status) \o ": " \o response_text(status)
    ELSE ""

RECURSIVE generate(_, _, _, _, _, _, _, _, _, _)
\* generate(request, retry_count): `fails` is the number of POSTs, from this
\* one on, that end in a transport error of the given kind. Every call,
\* the first and each retry, checks the catalog at the time it is made; a
\* retry is made backoff_delay seconds after the failed POST.
generate(cache, last, model, retry_count, current_time, tagsOk, served, fails, httpError, kind) ==
    LET lm == list_models(cache, last, FALSE, current_time, tagsOk, served)
    IN  IF ~is_model_available(lm, model)
        THEN [raised |-> "ModelNotFound", tags |-> lm.tags, posts |-> 0, delays |-> <<>>,
              http |-> 0, message |-> not_found_message(model),
              cache |-> lm.cache, last |-> lm.last, time |-> current_time]
        ELSE IF fails = 0
        THEN [raised |-> raised_for(post_status(model, served, httpError)),
              tags |-> lm.tags, posts |-> 1, delays |-> <<>>,
              http |-> post_status(model, served, httpError),
              message |-> exc_message(post_status(model, served, httpError), model),
              cache |-> lm.cache, last |-> lm.last, time |-> current_time]
        ELSE IF kind = "timeout"
        THEN [raised |-> "TimeoutError", tags |-> lm.tags, posts |-> 1, delays |-> <<>>,
              http |-> 0, message |-> "",
              cache |-> lm.cache, last |-> lm.last, time |-> current_time]
        ELSE IF retry_count < OllamaMaxRetries
        THEN LET r == generate(lm.cache, lm.last, model, retry_count + 1,
                               current_time + backoff_delay(retry_count),
                               tagsOk, served, fails - 1, httpError, kind)
             IN  [r EXCEPT !.tags = @ + lm.tags, !.posts = @ + 1,
                           !.delays = <<backoff_delay(retry_count)>> \o @]
        ELSE [raised |-> "ConnectionError", tags |-> lm.tags, posts |-> 1, delays |-> <<>>,
              http |-> 0, message |-> "Max retries exceeded: Cannot connect to host",
              cache |-> lm.cache, last |-> lm.last, time |-> current_time]

\* generate_stream(request): a ClientError is not retried
generate_stream(cache, last, model, current_time, tagsOk, served, fails, httpError) ==
    LET lm == list_models(cache, last, FALSE, current_time, tagsOk, served)
    IN  IF ~is_model_available(lm, model)
        THEN [raised |-> "ModelNotFound", tags |-> lm.tags, posts |-> 0,
              http |-> 0, message |-> not_found_message(model),
              cache |-> lm.cache, last |-> lm.last]
        ELSE IF fails = 0
        THEN [raised |-> raised_for(post_status(model, served, httpError)),
              tags |-> lm.tags, posts |-> 1,
              http |-> post_status(model, served, httpError),
              message |-> exc_message(post_status(model, served, httpError), model),
              cache |-> lm.cache, last |-> lm.last]
        ELSE [raised |-> "ConnectionError", tags |-> lm.tags, posts |-> 1,
              http |-> 0, message |-> "Streaming connection error: Cannot connect to host",
              cache |-> lm.cache, last |-> lm.last]

NoCall == [op |-> "none", model |-> "llama3", raised |-> "none", tags |-> 0, posts |-> 0,
           absent |-> FALSE, fresh |-> FALSE, delays |-> <<>>, failing |-> "none",
           kind |-> "none", reachable |-> TRUE, held |-> FALSE,
           force |-> FALSE, young |-> FALSE, cached |-> {}, models |-> {},
           ok |-> FALSE, pulls |-> 0, status |-> "none", catalog |-> {},
           http |-> 0, message |-> ""]

\* What a call found before acting: whether the cached catalog was still
\* valid, and whether the catalog it consulted lacks the model
CallFacts(model, tagsOk) ==
    LET lm == list_models(available_models, models_last_updated, FALSE, clock, tagsOk,
                          backendModels)
    IN  [fresh |-> cache_valid(available_models, models_last_updated, FALSE, clock),
         absent |-> ~lm.raised /\ model \notin lm.models]

ListModels(force_refresh, tagsOk) ==
    LET lm == list_models(available_models, models_last_updated, force_refresh, clock,
                          tagsOk, backendModels)
    IN  /\ available_models' = lm.cache
        /\ models_last_updated' = lm.last
        /\ oGot' = [NoCall EXCEPT !.op = "list_models",
                                  !.raised = IF lm.raised THEN "ConnectionError" ELSE "none",
                                  !.tags = lm.tags,
                                  !.force = force_refresh,
                                  !.young = cache_young(models_last_updated, clock),
                                  !.cached = available_models,
                                  !.models = lm.models,
                                  !.fresh = cache_valid(available_models, models_last_updated,
                                                        force_refresh, clock)]
        /\ UNCHANGED <<clock, backendModels, backoff>>
        /\ UNCHANGED notOllama

\* The POSTs of a generate call: none fails, the first `fails` end in a
\* connection error, or the first times out
PostFailures ==
    [fails : 0..(OllamaMaxRetries + 1), kind : {"connection"}]
        \cup {[fails |-> 1, kind |-> "timeout"]}

\* One call of generate. tagsOk: the server answers GET /api/tags during the
\* call; fails, kind: how many of its POSTs fail below HTTP, and how.
Generate(model, tagsOk, fails, httpError, kind) ==
    LET r == generate(available_models, models_last_updated, model, 0, clock, tagsOk,
                      backendModels, fails, httpError, kind)
        f == CallFacts(model, tagsOk)
    IN  /\ r.time <= MaxClock
        /\ backoff + (r.time - clock) <= MaxBackoff
        /\ backoff' = backoff + (r.time - clock)
        /\ available_models' = r.cache
        /\ models_last_updated' = r.last
        /\ clock' = r.time
        /\ oGot' = [NoCall EXCEPT !.op = "generate", !.model = model, !.raised = r.raised,
                       !.tags = r.tags, !.posts = r.posts, !.absent = f.absent,
                       !.fresh = f.fresh, !.delays = r.delays,
                       !.failing = IF fails = 0 THEN "none"
                                   ELSE IF fails <= OllamaMaxRetries THEN "some" ELSE "all",
                       !.kind = IF fails > 0 THEN kind ELSE "none",
                       !.reachable = tagsOk \/ fails <= OllamaMaxRetries,
                       !.held = model \in backendModels,
                       !.http = r.http, !.message = r.message]
        /\ UNCHANGED backendModels
        /\ UNCHANGED notOllama

GenerateStreaming(model, tagsOk, fails, httpError) ==
    LET r == generate_stream(available_models, models_last_updated, model, clock, tagsOk,
                             backendModels, fails, httpError)
        f == CallFacts(model, tagsOk)
    IN  /\ available_models' = r.cache
        /\ models_last_updated' = r.last
        /\ oGot' = [NoCall EXCEPT !.op = "generate_stream", !.model = model,
                       !.raised = r.raised, !.tags = r.tags, !.posts = r.posts,
                       !.absent = f.absent, !.fresh = f.fresh,
                       !.http = r.http, !.message = r.message]
        /\ UNCHANGED <<clock, backendModels, backoff>>
        /\ UNCHANGED notOllama

\* What POST /api/pull does: answers 200, answers another status, fails
PullAnswers == {"ok", "http", "transport"}

\* pull_model: POST /api/pull; on status 200 list_models(force_refresh=True)
\* and True; False on another status and on any exception, that of the
\* refresh included. served: the catalog of the server after the POST.
pull_model_unrefreshed(cache, last, model_name, current_time, answer, tagsOk, served) ==
    [ok |-> answer = "ok", cache |-> cache, last |-> last, pulls |-> 1, tags |-> 0]
pull_model(cache, last, model_name, current_time, answer, tagsOk, served) ==
    LET lm == list_models(cache, last, TRUE, current_time, tagsOk, served)
    IN  IF answer # "ok"
        THEN [ok |-> FALSE, cache |-> cache, last |-> last, pulls |-> 1, tags |-> 0]
        ELSE [ok |-> ~lm.raised, cache |-> lm.cache, last |-> lm.last, pulls |-> 1,
              tags |-> lm.tags]

\* The catalog of the server after POST /api/pull: the answer 200 comes when
\* the download starts and its body is not read, so the model is in the
\* catalog at the refresh (landed) or not
after_pull(served, model_name, answer, landed) ==
    IF answer = "ok" /\ landed THEN served \cup {model_name} ELSE served

PullModel(model_name, answer, landed, tagsOk) ==
    LET served == after_pull(backendModels, model_name, answer, landed)
        pm == pull_model(available_models, models_last_updated, model_name, clock,
                         answer, tagsOk, served)
    IN  /\ backendModels' = served
        /\ available_models' = pm.cache
        /\ models_last_updated' = pm.last
        /\ oGot' = [NoCall EXCEPT !.op = "pull_model", !.model = model_name,
                                  !.ok = pm.ok, !.pulls = pm.pulls, !.tags = pm.tags,
                                  !.cached = available_models, !.catalog = served]
        /\ UNCHANGED <<clock, backoff>>
        /\ UNCHANGED notOllama

\* POST /models/pull: without force a model that is_model_available reports
\* is answered already_available; otherwise pull_model, answered success or
\* 400. checkOk: whether the GET /api/tags of the availability check (if it
\* makes one) is answered.
pull_route_always(cache, last, name, force, current_time, checkOk, answer, tagsOk, before, served) ==
    LET lm == list_models(cache, last, FALSE, current_time, checkOk, before)
        pm == pull_model(IF force THEN cache ELSE lm.cache, IF force THEN last ELSE lm.last,
                         name, current_time, answer, tagsOk, served)
    IN  [status |-> IF pm.ok THEN "success" ELSE "400",
         available |-> ~force /\ is_model_available(lm, name),
         cache |-> pm.cache, last |-> pm.last, pulls |-> pm.pulls,
         tags |-> (IF force THEN 0 ELSE lm.tags) + pm.tags]
pull_route(cache, last, name, force, current_time, checkOk, answer, tagsOk, before, served) ==
    LET lm == list_models(cache, last, FALSE, current_time, checkOk, before)
    IN  IF ~force /\ is_model_available(lm, name)
        THEN [status |-> "already_available", available |-> TRUE,
              cache |-> lm.cache, last |-> lm.last, pulls |-> 0, tags |-> lm.tags]
        ELSE pull_route_always(cache, last, name, force, current_time, checkOk, answer,
                               tagsOk, before, served)

PullRoute(name, force, checkOk, answer, landed, tagsOk) ==
    LET lm == list_models(available_models, models_last_updated, FALSE, clock, checkOk,
                          backendModels)
        pulled == force \/ ~is_model_available(lm, name)
        served == IF pulled THEN after_pull(backendModels, name, answer, landed)
                  ELSE backendModels
        r == pull_route(available_models, models_last_updated, name, force, clock,
                        checkOk, answer, tagsOk, backendModels, served)
    IN  /\ backendModels' = served
        /\ available_models' = r.cache
        /\ models_last_updated' = r.last
        /\ oGot' = [NoCall EXCEPT !.op = "pull_route", !.model = name, !.force = force,
                                  !.status = r.status, !.held = r.available,
                                  !.pulls = r.pulls, !.tags = r.tags, !.catalog = served]
        /\ UNCHANGED <<clock, backoff>>
        /\ UNCHANGED notOllama

\* The server gains or loses a model (ollama pull / ollama rm)
BackendChange(m) ==
    /\ backendModels' = IF m \in backendModels THEN backendModels \ {m}
                        ELSE backendModels \cup {m}
    /\ UNCHANGED <<available_models, models_last_updated, clock, oGot, backoff>>
    /\ UNCHANGED notOllama

Sleep(d) ==
    /\ clock + d <= MaxClock
    /\ clock' = clock + d
    /\ UNCHANGED <<available_models, models_last_updated, backendModels, oGot, backoff>>
    /\ UNCHANGED notOllama

OllamaIdle ==
    /\ available_models = {}
    /\ models_last_updated = 0
    /\ clock = 1
    /\ backendModels = {}
    /\ oGot = NoCall
    /\ backoff = 0

OllamaInit ==
    /\ available_models = {}
    /\ models_last_updated = 0
    /\ clock = 1
    /\ backendModels \in SUBSET ModelNames
    /\ oGot = NoCall
    /\ backoff = 0

\* The calls that make one attempt: the POST is answered, or it times out
SingleAttempt == {f \in PostFailures : f.fails = 0 \/ f.kind = "timeout"}

OllamaNext ==
    \/ \E force_refresh \in BOOLEAN, tagsOk \in BOOLEAN : ListModels(force_refresh, tagsOk)
    \/ \E model \in ModelNames, tagsOk \in BOOLEAN, f \in SingleAttempt, httpError \in BOOLEAN :
          Generate(model, tagsOk, f.fails, httpError, f.kind)
    \/ \E model \in ModelNames, tagsOk \in BOOLEAN, fails \in 0..1, httpError \in BOOLEAN :
          GenerateStreaming(model, tagsOk, fails, httpError)
    \/ \E m \in ModelNames : BackendChange(m)
    \/ \E d \in Waits : Sleep(d)

\* The catalog cache: listing, pulling through the manager and through the
\* route, the server's catalog changing, time passing
PullNext ==
    \/ \E force_refresh \in BOOLEAN, tagsOk \in BOOLEAN : ListModels(force_refresh, tagsOk)
    \/ \E model_name \in ModelNames, answer \in PullAnswers, landed \in BOOLEAN,
          tagsOk \in BOOLEAN : PullModel(model_name, answer, landed, tagsOk)
    \/ \E name \in ModelNames, force \in BOOLEAN, checkOk \in BOOLEAN,
          answer \in PullAnswers, landed \in BOOLEAN, tagsOk \in BOOLEAN :
          PullRoute(name, force, checkOk, answer, landed, tagsOk)
    \/ \E m \in ModelNames : BackendChange(m)
    \/ \E d \in Waits : Sleep(d)

\* generate with every transport outcome, retries included, and
\* generate_stream
OllamaRetryNext ==
    \/ \E model \in ModelNames, tagsOk \in BOOLEAN, f \in PostFailures, httpError \in BOOLEAN :
          Generate(model, tagsOk, f.fails, httpError, f.kind)
    \/ \E model \in ModelNames, tagsOk \in BOOLEAN, fails \in 0..1, httpError \in BOOLEAN :
          GenerateStreaming(model, tagsOk, fails, httpError)
    \/ \E m \in ModelNames : BackendChange(m)
    \/ \E d \in Waits : Sleep(d)

\* ---------------------------------------------------------------------
\* System prompts and the active pointer (table system_memory; the columns
\* access_count and last_accessed, which no handler reads, are left out)
\* ---------------------------------------------------------------------
PromptKeys == {"p1", "p2"}
Contents == {"A", "B"}
Procs == {"a", "b"}

NoPrompt == [exists |-> FALSE, content |-> "none"]
\* No row 'system_prompt_active'
NoPointer == [exists |-> FALSE, key |-> "none"]
\* get_active_system_prompt returning None
NoActive == [key |-> "none", content |-> "none"]
IdleProc == [op |-> "none", pc |-> "idle", key |-> "none", target |-> "none",
             ok |-> FALSE, active |-> NoActive]

\* DatabaseManager.get_system_memory: the value of the row, None without a row
get_system_memory(es, key) == IF key \in PromptKeys THEN es[key] ELSE NoPrompt

\* The end of get_active_system_prompt: None when the entry the pointer
\* names is gone, else its key and value
active_prompt_unchecked(key, prompt_value) == [key |-> key, content |-> prompt_value.content]
active_prompt(key, prompt_value) ==
    IF ~prompt_value.exists THEN NoActive
    ELSE [key |-> key, content |-> prompt_value.content]

\* if not pointer or not isinstance(pointer, dict) or 'key' not in pointer
pointer_unset(ptr) == ~ptr.exists \/ ptr.key = "null"

\* create_prompt: save_system_prompt upserts the row
SavePrompt(key, content) ==
    /\ entries' = [entries EXCEPT ![key] = [exists |-> TRUE, content |-> content]]
    /\ UNCHANGED <<pointer, procs, lastDeleted>>
    /\ UNCHANGED notPrompt

\* activate_prompt, set_active_system_prompt: prompt = get_system_memory(key);
\* if not prompt: return False
ActivateCheck(p, key) ==
    /\ procs[p].pc = "idle"
    /\ procs' = [procs EXCEPT ![p] =
                    IF get_system_memory(entries, key).exists
                    THEN [IdleProc EXCEPT !.op = "activate", !.pc = "write", !.key = key]
                    ELSE [IdleProc EXCEPT !.op = "activate", !.key = key, !.ok = FALSE]]
    /\ UNCHANGED <<entries, pointer, lastDeleted>>
    /\ UNCHANGED notPrompt

\* set_active_system_prompt: set_system_memory('system_prompt_active', {"key": key})
ActivateWrite(p) ==
    /\ procs[p].pc = "write"
    /\ pointer' = [exists |-> TRUE, key |-> procs[p].key]
    /\ procs' = [procs EXCEPT ![p].pc = "idle", ![p].ok = TRUE]
    /\ lastDeleted' = "none"
    /\ UNCHANGED entries
    /\ UNCHANGED notPrompt

\* delete_prompt: delete_system_prompt(key); 404 when no row was deleted
DeleteRow(p, key) ==
    /\ procs[p].pc = "idle"
    /\ entries' = [entries EXCEPT ![key] = NoPrompt]
    /\ procs' = [procs EXCEPT ![p] =
                    IF entries[key].exists
                    THEN [IdleProc EXCEPT !.op = "delete", !.pc = "deletePointer", !.key = key]
                    ELSE [IdleProc EXCEPT !.op = "delete", !.key = key, !.ok = FALSE]]
    /\ UNCHANGED <<pointer, lastDeleted>>
    /\ UNCHANGED notPrompt

\* get_active_prompt: get_active_system_prompt starts
GetActiveBegin(p) ==
    /\ procs[p].pc = "idle"
    /\ procs' = [procs EXCEPT ![p] = [IdleProc EXCEPT !.op = "get", !.pc = "getPointer"]]
    /\ UNCHANGED <<entries, pointer, lastDeleted>>
    /\ UNCHANGED notPrompt

\* get_active_system_prompt, first read: the pointer row. Run by
\* get_active_prompt and by delete_prompt after its delete.
ReadPointer(p) ==
    /\ procs[p].pc \in {"getPointer", "deletePointer"}
    /\ procs' = [procs EXCEPT ![p] =
                    IF pointer_unset(pointer)
                    THEN [@ EXCEPT !.pc = "idle", !.ok = TRUE, !.active = NoActive]
                    ELSE [@ EXCEPT !.pc = IF @ = "getPointer" THEN "getEntry" ELSE "deleteEntry",
                                   !.target = pointer.key]]
    /\ lastDeleted' = IF procs[p].pc = "deletePointer" /\ pointer_unset(pointer)
                      THEN procs[p].key ELSE lastDeleted
    /\ UNCHANGED <<entries, pointer>>
    /\ UNCHANGED notPrompt

\* get_active_system_prompt, second read: the entry the pointer names.
\* delete_prompt goes on to unset the pointer when the active key is its own.
ReadEntry(p) ==
    LET active == active_prompt(procs[p].target, get_system_memory(entries, procs[p].target))
        unset == procs[p].pc = "deleteEntry" /\ active # NoActive /\ active.key = procs[p].key
    IN  /\ procs[p].pc \in {"getEntry", "deleteEntry"}
        /\ procs' = [procs EXCEPT ![p] =
                        [@ EXCEPT !.pc = IF unset THEN "unset" ELSE "idle",
                                  !.ok = TRUE, !.active = active]]
        /\ lastDeleted' = IF procs[p].pc = "deleteEntry" /\ ~unset
                          THEN procs[p].key ELSE lastDeleted
        /\ UNCHANGED <<entries, pointer>>
        /\ UNCHANGED notPrompt

\* delete_prompt: set_system_memory('system_prompt_active', value=None). The
\* table's definition is not part of the sources: the row takes the NULL, or
\* the statement fails and set_system_memory swallows the error.
UnsetPointer(p, accepted) ==
    /\ procs[p].pc = "unset"
    /\ pointer' = IF accepted THEN [exists |-> TRUE, key |-> "null"] ELSE pointer
    /\ procs' = [procs EXCEPT ![p].pc = "idle"]
    /\ lastDeleted' = procs[p].key
    /\ UNCHANGED entries
    /\ UNCHANGED notPrompt

PromptIdle ==
    /\ entries = [k \in PromptKeys |-> NoPrompt]
    /\ pointer = NoPointer
    /\ procs = [p \in Procs |-> IdleProc]
    /\ lastDeleted = "none"

PromptNext ==
    \/ \E key \in PromptKeys, content \in Contents : SavePrompt(key, content)
    \/ \E p \in Procs, key \in PromptKeys : ActivateCheck(p, key)
    \/ \E p \in Procs : ActivateWrite(p)
    \/ \E p \in Procs, key \in PromptKeys : DeleteRow(p, key)
    \/ \E p \in Procs : GetActiveBegin(p)
    \/ \E p \in Procs : ReadPointer(p)
    \/ \E p \in Procs : ReadEntry(p)
    \/ \E p \in Procs, accepted \in BOOLEAN : UnsetPointer(p, accepted)

\* ---------------------------------------------------------------------
\* Specifications and properties
\* ---------------------------------------------------------------------
\* The conversation memory under sequential calls, Redis and PostgreSQL reachable
InitMem == MemInit /\ RLIdle /\ TaskIdle /\ OllamaIdle /\ PromptIdle
SpecMem == InitMem /\ [][MemNext]_vars

\* C1: after successful saves on a conversation, a get of it, served by the
\* cache or by PostgreSQL, reports message_count equal to the number of
\* messages appended and total_tokens equal to the sum of their token
\* counts (None counting as 0).
C1_CountsMatch ==
    (got.op = "get" /\ messages[got.conv] # <<>>) =>
        /\ got.ok
        /\ got.message_count = Len(messages[got.conv])
        /\ got.total_tokens = SumTokens(messages[got.conv])

C1_Witness ==
    /\ got.op = "get" /\ got.ok /\ got.served = "cache"
    /\ got.message_count >= 2 /\ got.total_tokens > 0
    /\ \E i \in 1..Len(messages[got.conv]) : messages[got.conv][i].tokens = {}

\* C2: once a save of m has returned True, a get of that conversation
\* returns a message list containing m, also when the cache held a
\* record of the conversation before the write.
C2_SavedIsRead ==
    (got.op = "get" /\ got.after.id # 0) =>
        got.ok /\ got.after.id \in Ids(got.messages)

C2_Witness ==
    /\ got.op = "get" /\ got.after.id # 0 /\ got.after.warm
    /\ got.ok /\ got.after.id \in Ids(got.messages)
    /\ Len(messages[got.conv]) >= 2

\* The conversation memory under sequential saves, reads and deletes of a
\* conversation, Redis and PostgreSQL reachable, cache entries expiring
InitMemDel == MemInit /\ RLIdle /\ TaskIdle /\ OllamaIdle /\ PromptIdle
SpecMemDel == InitMemDel /\ [][MemDelNext]_vars

\* C15: the first two get_conversation_memory calls after a save that
\* returned True, made with the same limit and with no write between them,
\* return the same message list, whether the cache or PostgreSQL served
\* either of them.
C15_TwoReadsAgree ==
    [][(got.op = "get" /\ got.nth = 1 /\ got'.op = "get" /\ got'.nth = 2) =>
          (got'.ok = got.ok /\ got'.messages = got.messages)]_vars

C15_Witness ==
    /\ got.op = "get" /\ got.nth = 2 /\ got.ok
    /\ got.served = "db" /\ got.prevServed = "cache"
    /\ got.limit = 1 /\ Len(messages[got.conv]) >= 2
    /\ Len(got.messages) = 1

\* C16: in every state, for every conversation and limit, the record
\* get_conversation_memory returns with the cache as it stands has the
\* messages and counters of the record it returns from PostgreSQL with an
\* empty cache.
C16_CacheNotAuthoritative ==
    \A c \in ConvIds, limit \in Limits :
        LET warm == get_conversation_memory(redis, conversations, messages, c, limit,
                                            TRUE, TRUE)
            cold == get_conversation_memory([k \in ConvIds |-> NoEntry], conversations,
                                            messages, c, limit, TRUE, TRUE)
        IN  /\ warm.ok = cold.ok
            /\ warm.messages = cold.messages
            /\ warm.message_count = cold.message_count
            /\ warm.total_tokens = cold.total_tokens

\* C31: a get_conversation_memory call with limit N that finds the
\* conversation returns its N latest messages (all of them when it has fewer),
\* in append order, whatever served it and whatever limits earlier reads used.
C31_LimitGivesLatest ==
    (got.op = "get" /\ got.ok /\ got.limit >= 1) =>
        got.messages = LastN(messages[got.conv], got.limit)

\* The memory manager under sequential calls that Redis may not answer
MemFailNext ==
    \/ \E i \in SaveInputs : SaveMessage("c1", i.role, i.content, i.tokens, i.caller, TRUE)
    \/ \E limit \in Limits, cacheUp \in BOOLEAN : ReadConversation("c1", limit, cacheUp)
    \/ \E u \in UserIds, cacheUp \in BOOLEAN : GetUser(u, cacheUp)
    \/ \E u \in UserIds, lang \in Languages, cacheUp \in BOOLEAN :
          UpdateUserPreferences(u, lang, cacheUp)
    \/ \E u \in UserIds, fact \in UserFacts, cacheUp \in BOOLEAN : AddUserFact(u, fact, cacheUp)
    \/ \E u \in UserIds : UserCacheExpire(u)

InitMemFail == MemInit /\ RLIdle /\ TaskIdle /\ OllamaIdle /\ PromptIdle
SpecMemFail == InitMemFail /\ [][MemFailNext]_vars

\* The prompt assembler of the worker between saves of a conversation,
\* Redis or PostgreSQL answering a call or not
BuildNext ==
    \/ \E i \in SaveInputs : SaveMessage("c1", i.role, i.content, i.tokens, i.caller, TRUE)
    \/ CacheExpire("c1")
    \/ \E u \in UserIds : UserCacheExpire(u)
    \/ \E u \in Callers, p \in Prompts, temperature \in Temperatures,
          active \in ActivePrompts, cacheUp \in BOOLEAN, dbUp \in BOOLEAN :
          BuildPrompt("c1", u, p.content, "llama3", temperature, active, cacheUp, dbUp)

InitBuild == MemInit /\ RLIdle /\ TaskIdle /\ OllamaIdle /\ PromptIdle
SpecBuild == InitBuild /\ [][BuildNext]_vars

\* C19: a _build_context_prompt call during which the retrieval of the
\* conversation, of the user or of the active system prompt failed returns
\* the fallback prompt: the raw user turn and nothing else.
C19_FailureGivesFallback ==
    (got.op = "build_prompt" /\ got.failed # {}) =>
        got.prompt = fallback_prompt(got.prompt.question)

\* C20: a get_conversation_memory, get_user_memory, update_user_preferences
\* or add_user_fact call that the Redis client does not answer returns what
\* the call returns, and an update leaves the users table as it leaves it,
\* with Redis answering and holding no key.
C20_CacheFailureInvisible ==
    [][~got'.cacheUp =>
          LET r0 == [k \in ConvIds |-> NoEntry]
              u0 == [k \in UserRows |-> NoUserEntry]
              u == got'.user
          IN  /\ got'.op = "get" =>
                    LET ref == get_conversation_memory(r0, conversations, messages,
                                                       got'.conv, got'.limit, TRUE, TRUE)
                    IN  got'.ok = ref.ok /\ got'.messages = ref.messages
              /\ got'.op = "get_user" =>
                    got'.profile = get_user_memory(u0, users, u, TRUE, TRUE).profile
              /\ got'.op = "update_user_preferences" =>
                    LET ref == update_user_preferences(u0, users, u, got'.arg, TRUE, TRUE)
                    IN  got'.ok = ref.ok /\ users' = ref.users
              /\ got'.op = "add_user_fact" =>
                    LET ref == add_user_fact(u0, users, u, got'.arg, TRUE, TRUE)
                    IN  got'.ok = ref.ok /\ users' = ref.users]_vars

\* Saves whose append succeeds and whose side effects may fail, and reads
MemSaveNext ==
    \/ \E c \in DelConvs, i \in SaveInputs, cacheUp \in BOOLEAN, recacheUp \in BOOLEAN,
          extractUp \in BOOLEAN :
          SaveMessageAppended(c, i.role, i.content, i.tokens, i.caller, cacheUp, recacheUp,
                              extractUp)
    \/ \E c \in DelConvs, limit \in Limits : ReadConversation(c, limit, TRUE)
    \/ \E c \in DelConvs : CacheExpire(c)

InitMemSave == MemInit /\ RLIdle /\ TaskIdle /\ OllamaIdle /\ PromptIdle
SpecMemSave == InitMemSave /\ [][MemSaveNext]_vars

\* C21: a save_conversation_message whose append succeeded and during which
\* the cache delete, the cache re-population or the fact/preference
\* extraction failed returns True, and the message is among the stored
\* messages of the conversation.
C21_SideFailuresContained ==
    (got.op = "save" /\ got.failed # {}) =>
        /\ got.ok
        /\ got.after.id \in Ids(messages[got.conv])

C21_Witness ==
    /\ got.op = "save" /\ got.ok
    /\ got.arg = "user" /\ got.user = "u1"
    /\ {"recache", "extract"} \subseteq got.failed
    /\ got.after.id \in Ids(messages[got.conv])
    /\ ~redis[got.conv].present

\* The tasks with workers that keep consuming their queues: a task that a
\* worker can take or continue is taken or continued
InitTaskLive == TaskIdle /\ MemInit /\ RLIdle /\ OllamaIdle /\ PromptIdle
SpecTaskLive ==
    InitTaskLive /\ [][TaskLiveNext]_vars /\ \A t \in LiveTasks : WF_vars(WorkerStep(t))

\* C22: a submitted task that is not cancelled is eventually reported as
\* completed or failed by get_task_status, whatever its executions do
\* (fail every time, pass the soft or the hard time limit).
C22_EventuallyTerminal ==
    \A t \in TaskIds :
        (tasks[t].phase = "queued") ~>
            (get_task_status(tasks[t]).status \in {"completed", "failed"})

C22_Witness ==
    \E t \in TaskIds :
        /\ get_task_status(tasks[t]).status = "failed"
        /\ tasks[t].kind = "chat"
        /\ tasks[t].executions = ChatMaxRetries + 1
        /\ tasks[t].failed = tasks[t].executions
        /\ tasks[t].lastError = "softlimit"

\* A streaming task, chunk by chunk
InitStream == TaskIdle /\ MemInit /\ RLIdle /\ OllamaIdle /\ PromptIdle
SpecStream == InitStream /\ [][StreamNext]_vars

\* C23: in a streaming task no execution fails because a chunk could not be
\* delivered to callback_url; the accumulated text is at every moment the
\* concatenation, in arrival order, of the fragments received in the
\* execution, and the result of a task that succeeded is that text.
C23_DeliveryFailureHarmless ==
    \A t \in StreamTasks :
        LET tk == tasks[t]
        IN  tk.kind = "stream" =>
                /\ tk.lastError # "callback"
                /\ tk.accumulated = Concat(tk.received)
                /\ (tk.phase = "done" /\ tk.state = "SUCCESS" /\ ~tk.result.error) =>
                        tk.result.response = Concat(tk.received)

C23_Witness ==
    \E t \in StreamTasks :
        /\ tasks[t].phase = "done" /\ tasks[t].state = "SUCCESS" /\ ~tasks[t].result.error
        /\ tasks[t].undelivered = {1, 2}
        /\ tasks[t].received = <<"a", "b", "a">>
        /\ tasks[t].result.response = "aba"
        /\ tasks[t].failed = 0

\* The users table under the calls that write it: saves (whose extraction
\* adds facts), the extraction of the worker, added facts, preferences,
\* and reads that create the row
FactsNext ==
    \/ \E i \in SaveInputs : SaveMessage("c1", i.role, i.content, i.tokens, i.caller, TRUE)
    \/ \E u \in UserIds, p \in Prompts : ExtractFacts(u, p.content)
    \/ \E u \in UserIds, fact \in UserFacts, cacheUp \in BOOLEAN : AddUserFact(u, fact, cacheUp)
    \/ \E u \in UserIds, lang \in Languages : UpdateUserPreferences(u, lang, TRUE)
    \/ \E u \in UserIds : GetUser(u, TRUE)
    \/ \E u \in UserIds : UserCacheExpire(u)

InitFacts == MemInit /\ RLIdle /\ TaskIdle /\ OllamaIdle /\ PromptIdle
SpecFacts == InitFacts /\ [][FactsNext]_vars

IsPrefix(s, t) == Len(s) <= Len(t) /\ SubSeq(t, 1, Len(s)) = s
NoDuplicates(s) == \A i, j \in 1..Len(s) : s[i] = s[j] => i = j

\* C24: every step leaves each user's facts without a repeated string and
\* with the facts it had before as a prefix (nothing removed or moved), and
\* an extraction over a content that has just been extracted, by the memory
\* manager or by the worker, changes nothing.
C24_FactsAppendOnlyDeduplicated ==
    [][\A u \in UserRows :
          /\ NoDuplicates(users'[u].facts)
          /\ IsPrefix(users[u].facts, users'[u].facts)
          /\ \A i \in SaveInputs :
                LET once == extract_users(users', u, i.content)
                    again == worker_extract_users(once, u, i.content)
                IN  /\ extract_users(once, u, i.content) = once
                    /\ again[u].facts = once[u].facts]_vars

C24_Witness ==
    /\ got.op = "add_user_fact" /\ got.arg = "prog:python" /\ ~got.ok /\ got.cacheUp
    /\ users[got.user].facts = <<"likes tea", "prog:python">>

\* The prompt builder over a stored history: a conversation of up to
\* MaxTurns messages and a profile of up to MaxFacts facts, both read back
\* through a cache that starts cold
MaxTurns == 8
MaxFacts == 4
TurnTexts == <<"t1", "t2", "t3", "t4", "t5", "t6", "t7", "t8", "t9", "t10">>
FactPool == <<"f1", "f2", "f3", "f4", "f5", "f6">>
\* Who wrote the i-th message: a plain dialogue, one with a system message
\* after every second turn, one where every second message is a system message
RolePatterns == {"dialogue", "noted", "noisy"}
role_at(pattern, i) ==
    IF pattern = "noted" /\ i % 3 = 0 THEN "system"
    ELSE IF pattern = "noisy" /\ i % 2 = 0 THEN "system"
    ELSE IF i % 2 = 1 THEN "user" ELSE "assistant"
stored_history(pattern, n) ==
    [i \in 1..n |-> [id |-> i, role |-> role_at(pattern, i),
                     content |-> {TurnTexts[i]}, tokens |-> {}]]

InitOrder ==
    /\ \E n \in 0..MaxTurns, pattern \in RolePatterns :
          /\ n = 0 => pattern = "dialogue"
          /\ messages = [c \in ConvIds |->
                            IF c = "c1" THEN stored_history(pattern, n) ELSE <<>>]
          /\ conversations = [c \in ConvIds |->
                                 IF c = "c1" /\ n > 0
                                 THEN [exists |-> TRUE, inactive |-> FALSE, user |-> "u1",
                                       message_count |-> n, total_tokens |-> 0]
                                 ELSE NoRow]
          /\ nextId = n
          /\ lastSaved = [c \in ConvIds |->
                             IF c = "c1" /\ n > 0 THEN [id |-> n, warm |-> FALSE]
                             ELSE NoSave]
    /\ \E k \in 0..MaxFacts, lang \in Languages \cup {"none"} :
          users = [u \in UserRows |->
                      IF u = "u1"
                      THEN [exists |-> TRUE, facts |-> SubSeq(FactPool, 1, k),
                            language |-> lang]
                      ELSE NoUser]
    /\ redis = [c \in ConvIds |-> NoEntry]
    /\ userCache = [u \in UserRows |-> NoUserEntry]
    /\ got = NoResult
    /\ memCalls = [p \in MemCallers |-> IdleCall]
    /\ DbIdle
    /\ SessionIdle
    /\ RLIdle /\ TaskIdle /\ OllamaIdle /\ PromptIdle

OrderNext ==
    \/ CacheExpire("c1")
    \/ \E u \in UserIds : UserCacheExpire(u)
    \/ \E u \in Callers, p \in Prompts, temperature \in Temperatures,
          active \in ActivePrompts :
          BuildPrompt("c1", u, p.content, "llama3", temperature, active, TRUE, TRUE)

SpecOrder == InitOrder /\ [][OrderNext]_vars

\* The place of a block in the layout of the prompt
Rank(block) ==
    CASE block = "instructions" -> 1
      [] block = "identity" -> 2
      [] block = "preferences" -> 3
      [] block = "facts" -> 4
      [] block = "turn" -> 5
      [] block = "question" -> 6
Blocks(lines) == SelectSeq(lines, LAMBDA l : l.block \notin {"header", "blank"})
Of(lines, block) == SelectSeq(lines, LAMBDA l : l.block = block)

InitMemRace == MemInit /\ RLIdle /\ TaskIdle /\ OllamaIdle /\ PromptIdle
SpecMemRace == InitMemRace /\ [][MemRaceNext]_vars

\* C29: once the save_message and get_conversation calls on a conversation
\* have all returned, the cached record of the conversation, if there is one,
\* holds every message that the saves have appended (every add_message
\* having run to its end).
C29_CacheHoldsAppended ==
    (\A p \in MemCallers : memCalls[p].pc = "idle") =>
        \A c \in ConvIds :
            (redis[c].present /\ conversations[c].message_count = Len(messages[c])) =>
                Ids(messages[c]) \subseteq Ids(redis[c].messages)

\* C34: two save_message calls that both found no conversation under the
\* id and have returned (no statement of add_message having failed) have
\* both returned True, one of them has created the conversation record, and
\* the messages of both are stored.
C34_ConcurrentFirstSaves ==
    \A p, q \in MemCallers :
        (/\ p # q
         /\ \A r \in {p, q} :
               /\ memCalls[r].op = "save" /\ memCalls[r].pc = "idle"
               /\ memCalls[r].first /\ memCalls[r].failedAt # "update"
               /\ memCalls[r].conv = memCalls[p].conv) =>
            /\ memCalls[p].ok /\ memCalls[q].ok
            /\ memCalls[p].created # memCalls[q].created
            /\ {memCalls[p].m.id, memCalls[q].m.id} \subseteq Ids(messages[memCalls[p].conv])

InitDb == MemInit /\ RLIdle /\ TaskIdle /\ OllamaIdle /\ PromptIdle
SpecDb == InitDb /\ [][DbNext]_vars

\* C35: with calls of get_database_manager from several requests, no call
\* is handed a manager whose pool has not been initialized, the pool is
\* initialized at most once, and a call that begins after an initialization
\* has failed initializes again (it returns a manager with a pool, or
\* raises because its own initialization failed).
C35_ManagerInitializedOnce ==
    /\ \A p \in DbCallers :
          (dbCalls[p].pc = "idle" /\ dbCalls[p].result = "manager") =>
              dbCalls[p].pool = "ready"
    /\ db_manager.inits <= 1
    /\ \A p \in DbCallers :
          (dbCalls[p].pc = "idle" /\ dbCalls[p].afterFailure) =>
              (dbCalls[p].result = "manager" => dbCalls[p].pool = "ready")

InitSession == MemInit /\ RLIdle /\ TaskIdle /\ OllamaIdle /\ PromptIdle
SpecSession == InitSession /\ [][SessionNext]_vars

\* C36: the session a generate call has its POST in flight on is not
\* closed by another operation.
C36_SessionInUseStaysOpen ==
    \A p \in ChatCallers :
        chatCalls[p].pc = "generate" => chatCalls[p].session \notin ollama_session.closed

C38_StreamingLikeSingleShot ==
    \A t \in TaskIds :
        (/\ tasks[t].kind = "stream" /\ tasks[t].phase = "done"
         /\ tasks[t].state = "SUCCESS" /\ ~tasks[t].result.error) =>
            /\ tasks[t].sent = "context"
            /\ Len(tasks[t].ids) = 2

\* C39: when the backend answers a POST of generate or generate_stream
\* with 404 the call raises ModelNotFound; when it answers with another
\* status that is not a success the call raises the connection error whose
\* text carries the body of the answer; the call makes no POST after that
\* answer.
C39_HttpErrorsRaised ==
    (oGot.op \in {"generate", "generate_stream"} /\ oGot.http # 0) =>
        /\ oGot.http = 404 =>
              /\ oGot.raised = "ModelNotFound"
              /\ oGot.message = not_found_message(oGot.model)
        /\ (oGot.http # 404 /\ (oGot.http < 200 \/ oGot.http >= 300)) =>
              /\ oGot.raised = "ConnectionError"
              /\ oGot.message = "Ollama API error " \o ToString(oGot.http) \o ": "
                                    \o response_text(oGot.http)
        /\ oGot.http # 200 => (oGot.failing = "none" => oGot.posts = 1)
        /\ oGot.posts = Len(oGot.delays) + 1

\* C39 witness: a generate call whose POST was answered 500
C39_Witness ==
    /\ oGot.op = "generate" /\ oGot.http = 500 /\ oGot.posts = 1
    /\ oGot.raised = "ConnectionError"
    /\ oGot.message = "Ollama API error 500: llama runner process has terminated"

\* C30: the INSERT of a message and the UPDATE of the counters are one
\* atomic step: a get_conversation never returns a record whose
\* message_count differs from the number of its messages, and an add_message
\* that fails between the two leaves no message behind.
C30_AppendAtomic ==
    /\ \A p \in MemCallers :
          (memCalls[p].op = "get" /\ memCalls[p].pc = "idle"
             /\ memCalls[p].returned.served # "none") =>
              memCalls[p].returned.message_count = Len(memCalls[p].returned.messages)
    /\ \A c \in ConvIds :
          (\A p \in MemCallers : memCalls[p].pc # "update") =>
              conversations[c].message_count = Len(messages[c])

\* The rate limiter under sequential calls, Redis reachable
InitRL == RLInit /\ MemInit /\ TaskIdle /\ OllamaIdle /\ PromptIdle
SpecRL == InitRL /\ [][RLNext]_vars

\* C3: from an empty window of a key, with limit N and window W, the checks
\* of cost 1 made less than W seconds after the first are allowed up to the
\* N-th and raise RateLimitExceeded from the (N+1)-th on.
C3_ExactlyLimit ==
    (rlGot.outcome # "none" /\ rlGot.cost1
       /\ now - rlGot.start < rlConf[rlGot.key].window * TicksPerSecond) =>
        /\ rlGot.index <= rlConf[rlGot.key].limit => rlGot.outcome = "allowed"
        /\ rlGot.index > rlConf[rlGot.key].limit => rlGot.outcome = "exceeded"

C3_Witness ==
    /\ rlGot.outcome = "exceeded" /\ rlGot.cost1
    /\ rlConf[rlGot.key].limit = 2 /\ rlGot.index = 3
    /\ now - rlGot.start = rlConf[rlGot.key].window * TicksPerSecond - 1
    /\ rlGot.retry_after = 1

\* The rate limiter under sequential calls, with status queries, Redis
\* failing a command of a check or answering
InitRLStore == RLInit /\ MemInit /\ TaskIdle /\ OllamaIdle /\ PromptIdle
SpecRLStore == InitRLStore /\ [][RLStoreNext]_vars

\* C12: a check during which a command of the store fails (the prune and
\* count, the lookup of the oldest entry, or the append) returns allowed and
\* raises nothing; its caller is not answered 429.
C12_FailOpen ==
    (rlGot.op = "check" /\ rlGot.storeFailed # "none") =>
        rlGot.outcome = "allowed" /\ rlGot.reply = "passed"

C12_Witness ==
    /\ rlGot.op = "check" /\ rlGot.storeFailed = "oldest" /\ rlGot.over
    /\ rlGot.outcome = "allowed" /\ rlGot.reply = "passed"

\* C13: whenever a check raises RateLimitExceeded, retry_after is an integer
\* with 0 < retry_after <= window; it equals max(1, floor(oldest_ts + window -
\* now)) for the oldest timestamp left in the window by the prune, and the
\* window when the prune leaves no timestamp.
C13_RetryAfter ==
    (rlGot.op = "check" /\ rlGot.outcome = "exceeded") =>
        /\ rlGot.retry_after \in 1..rlConf[rlGot.key].window
        /\ \A due \in rlGot.due :
              rlGot.retry_after = IF due \div TicksPerSecond >= 1
                                  THEN due \div TicksPerSecond ELSE 1
        /\ rlGot.due = {} => rlGot.retry_after = rlConf[rlGot.key].window

C13_Witness ==
    /\ rlGot.op = "check" /\ rlGot.outcome = "exceeded" /\ rlGot.retry_after = 1
    /\ rlConf[rlGot.key].window = 2
    /\ \E due \in rlGot.due : due > 0 /\ due < TicksPerSecond

\* The rate limiter under two concurrent callers, Redis reachable
InitRLRace == RLInit /\ MemInit /\ TaskIdle /\ OllamaIdle /\ PromptIdle
SpecRLRace == InitRLRace /\ [][RLRaceNext]_vars

\* The entries of key k that a prune at the present time would leave
InWindow(k) ==
    Cardinality({i \in 1..Len(rlWindow[k]) :
                    rlWindow[k][i] > now - rlConf[k].window * TicksPerSecond})

\* C28: whatever the interleaving of the check_rate_limit calls on a key,
\* the key never holds more entries inside the window than the limit.
C28_NeverOverLimit ==
    \A k \in RLKeys : InWindow(k) <= rlConf[k].limit

\* The gate of the API routes, one request after the other
InitGate == GateInit /\ MemInit /\ TaskIdle /\ OllamaIdle /\ PromptIdle
SpecGate == InitGate /\ [][GateNext]_vars

\* C32: a request that the gate answers 429 has left no entry in any window:
\* when the check of the hour key or of the global key raises, the windows
\* checked before it hold nothing of the request.
C32_RejectedConsumesNothing ==
    [][(rlGot'.op = "gate" /\ now' = now /\ rlGot'.reply = "429") =>
          \A k \in DOMAIN rlWindow :
              Len(rlWindow'[k]) <= Len(rlWindow[k]) /\ rlGot'.recorded = {}]_vars

C14_StatusLeavesWindow ==
    [][(rlGot'.op = "status" /\ now' = now) =>
          (rlWindow' = rlWindow /\ rlExpire' = rlExpire)]_vars


\* The task pipeline: two tasks, concurrent workers, PostgreSQL answering a
\* call of the worker or not, Redis reachable
InitTask == TaskIdle /\ MemInit /\ RLIdle /\ OllamaIdle /\ PromptIdle
SpecTask == InitTask /\ [][TaskNext]_vars

TaskStatus(t) == get_task_status(tasks[t]).status
ListedTransitions ==
    { <<"pending", "processing">>, <<"processing", "completed">>,
      <<"processing", "failed">>, <<"processing", "retrying">>,
      <<"retrying", "processing">> }

\* C4: the status of a submitted task that is not cancelled changes only
\* along pending -> processing, processing -> completed, processing -> failed,
\* processing -> retrying and retrying -> processing; completed and failed
\* are never left.
C4_OnlyListedTransitions ==
    [][\A t \in TaskIds :
          (/\ tasks[t].phase # "new"
           /\ tasks[t].state # "REVOKED" /\ tasks'[t].state # "REVOKED"
           /\ get_task_status(tasks'[t]).status # TaskStatus(t))
              => <<TaskStatus(t), get_task_status(tasks'[t]).status>> \in ListedTransitions]_vars

\* C5: a task all of whose executions fail with a transient backend error
\* is executed max_retries + 1 times (4 single-shot, 3 streaming), reports
\* retrying from the first failure until the last execution ends, and then
\* reports failed with a non-empty error.
C5_RetriedExactly ==
    \A t \in TaskIds :
        LET tk == tasks[t]
            max == max_retries(tk.kind)
            reply == get_task_status(tk)
        IN  (tk.failed >= 1 /\ ~tk.nonTransient) =>
                /\ tk.failed <= max + 1
                /\ (tk.failed <= max /\ tk.text = NoResponse) => reply.status = "retrying"
                /\ (tk.failed <= max /\ tk.failed = tk.executions) => tk.phase = "queued"
                /\ tk.failed = max + 1 =>
                      /\ tk.executions = max + 1
                      /\ reply.status = "failed"
                      /\ reply.error # ""
                /\ reply.status = "failed" => tk.failed = max + 1

C5_Witness ==
    \E t, u \in TaskIds :
        /\ tasks[t].kind = "chat" /\ ~tasks[t].nonTransient
        /\ tasks[t].executions = 4 /\ TaskStatus(t) = "failed"
        /\ tasks[u].kind = "stream" /\ ~tasks[u].nonTransient
        /\ tasks[u].executions = 3 /\ TaskStatus(u) = "failed"

\* C6: an execution that fails with a non-transient error (ModelNotFound,
\* a request that fails validation) is the only execution of its task, which
\* is then failed; only a transient backend error leads to retrying.
C6_NonTransientNotRetried ==
    \A t \in TaskIds :
        LET tk == tasks[t]
        IN  /\ tk.nonTransient => tk.executions = 1 /\ TaskStatus(t) = "failed"
            /\ tk.state = "RETRY" => tk.lastError = "transient"

C11_CancelLeavesGenerationRunning ==
    [][\A t \in TaskIds :
          (tasks[t].phase = "running" /\ ~tasks[t].cancelled /\ tasks'[t].cancelled)
              => tasks'[t].phase = "running"]_vars

\* The Ollama client of one process, the server's catalog changing, its
\* requests answered or not
InitOllama == OllamaInit /\ MemInit /\ RLIdle /\ TaskIdle /\ PromptIdle
SpecOllama == InitOllama /\ [][OllamaNext]_vars
InitOllamaRetry == OllamaInit /\ MemInit /\ RLIdle /\ TaskIdle /\ PromptIdle
SpecOllamaRetry == InitOllamaRetry /\ [][OllamaRetryNext]_vars

\* C8 as stated: generate and generate_stream, called with a model that the
\* catalog lacks, raise ModelNotFound and no request at all is sent to the
\* server.
C8_NoNetworkCall ==
    (oGot.op \in {"generate", "generate_stream"} /\ oGot.absent) =>
        /\ oGot.raised = "ModelNotFound"
        /\ oGot.tags = 0 /\ oGot.posts = 0

\* C8: generate and generate_stream, called with a model that the catalog
\* lacks, raise ModelNotFound without sending a generation request; the
\* catalog check sends one GET /api/tags, and none when the cached catalog
\* is not empty and younger than 300 seconds.
C8_NoGenerateCall ==
    (oGot.op \in {"generate", "generate_stream"} /\ oGot.absent) =>
        /\ oGot.raised = "ModelNotFound"
        /\ oGot.posts = 0
        /\ oGot.tags = IF oGot.fresh THEN 0 ELSE 1

C8_Witness ==
    /\ oGot.op = "generate" /\ oGot.absent /\ oGot.fresh
    /\ oGot.raised = "ModelNotFound" /\ oGot.tags = 0 /\ oGot.posts = 0
    /\ oGot.model \in backendModels
    /\ clock - models_last_updated = ModelsCacheTtl - 2

InitPull == OllamaInit /\ MemInit /\ RLIdle /\ TaskIdle /\ PromptIdle
SpecPull == InitPull /\ [][PullNext]_vars

\* C26 as stated: list_models without force_refresh, called while the cached
\* catalog is younger than the TTL, returns the cached catalog and sends no
\* request.
C26_YoungCacheServed ==
    (oGot.op = "list_models" /\ ~oGot.force /\ oGot.young) =>
        oGot.tags = 0 /\ oGot.models = oGot.cached

\* C26: list_models without force_refresh, called while the cached catalog
\* is not empty and younger than the TTL, returns it and sends no request;
\* with force_refresh it sends GET /api/tags; a pull_model that returned True
\* has sent it too and left the catalog of the server in the cache, so that
\* is_model_available, while that catalog is the server's, answers by it.
C26_CacheAndRefresh ==
    /\ (oGot.op = "list_models" /\ ~oGot.force /\ oGot.young /\ oGot.cached # {}) =>
          oGot.tags = 0 /\ oGot.models = oGot.cached
    /\ (oGot.op = "list_models" /\ oGot.force) => oGot.tags = 1
    /\ (oGot.op = "pull_model" /\ oGot.ok) => oGot.tags = 1 /\ oGot.pulls = 1
    /\ (oGot.op = "pull_model" /\ oGot.ok /\ oGot.catalog = backendModels) =>
          \A tagsOk \in BOOLEAN :
              LET lm == list_models(available_models, models_last_updated, FALSE, clock,
                                    tagsOk, backendModels)
              IN  (tagsOk \/ lm.tags = 0) =>
                      (is_model_available(lm, oGot.model) <=> oGot.model \in backendModels)

C26_Witness ==
    /\ oGot.op = "pull_model" /\ oGot.ok /\ oGot.model = "mistral"
    /\ oGot.cached = {"llama3"} /\ oGot.catalog = {"llama3", "mistral"}
    /\ backendModels = oGot.catalog /\ available_models = backendModels
    /\ models_last_updated = clock /\ clock > 1

\* C27: POST /models/pull with force = false for a model that
\* is_model_available reports is answered already_available and sends no
\* POST /api/pull.
C27_AlreadyAvailable ==
    (oGot.op = "pull_route" /\ ~oGot.force /\ oGot.held) =>
        /\ oGot.status = "already_available"
        /\ oGot.pulls = 0

C27_Witness ==
    /\ oGot.op = "pull_route" /\ ~oGot.force /\ oGot.held /\ oGot.model = "llama3"
    /\ oGot.status = "already_available" /\ oGot.pulls = 0 /\ oGot.tags = 0
    /\ "llama3" \notin backendModels

\* C17: a generate call whose POST fails at transport level (a connection
\* error or a timeout) retries it after delays of 1, 2, 4, ... seconds
\* (2^attempt), makes at most max_retries retries, and raises a connection
\* error when every attempt has failed.
C17_RetriesWithBackoff ==
    (oGot.op = "generate" /\ oGot.posts >= 1 /\ oGot.failing # "none") =>
        /\ Len(oGot.delays) \in 1..OllamaMaxRetries
        /\ \A i \in 1..Len(oGot.delays) : oGot.delays[i] = 2 ^ (i - 1)
        /\ oGot.posts = Len(oGot.delays) + 1
        /\ oGot.failing = "all" =>
              Len(oGot.delays) = OllamaMaxRetries /\ oGot.raised = "ConnectionError"

\* C18: a generate call for a model the server holds, made while the server
\* answers none of its requests, raises a connection error after
\* max_retries + 1 attempts, and never ModelNotFound, whatever the state of
\* the catalog cache.
C18_UnreachableIsConnectionError ==
    (oGot.op = "generate" /\ oGot.held /\ ~oGot.reachable /\ oGot.kind = "connection") =>
        /\ oGot.raised = "ConnectionError"
        /\ oGot.posts = OllamaMaxRetries + 1

\* The system prompt routes, two requests in flight
InitPrompt == PromptIdle /\ MemInit /\ RLIdle /\ TaskIdle /\ OllamaIdle
SpecPrompt == InitPrompt /\ [][PromptNext]_vars

\* C9: once delete_prompt has deleted a prompt, the pointer row does not name
\* the deleted key unless an activation has written it since; so a prompt
\* saved again under the key is not active.
C9_DeletedNotActive ==
    lastDeleted # "none" => ~(pointer.exists /\ pointer.key = lastDeleted)

\* C10: under any interleaving of save, activate and delete,
\* get_active_system_prompt returns None or the key and content of an entry
\* that exists when it is read; set_active_system_prompt(key) finding no
\* entry under key returns False and leaves the pointer as it is.
C10_ActiveExists ==
    [][\A p \in Procs :
          /\ (procs[p].pc = "getEntry" /\ procs'[p].pc = "idle") =>
                \/ procs'[p].active = NoActive
                \/ /\ procs'[p].active.key \in PromptKeys
                   /\ entries'[procs'[p].active.key].exists
                   /\ procs'[p].active.content = entries'[procs'[p].active.key].content
          /\ (/\ procs[p].pc = "idle" /\ procs'[p].op = "activate"
              /\ procs'[p] # procs[p]
              /\ ~entries[procs'[p].key].exists) =>
                /\ procs'[p].pc = "idle" /\ ~procs'[p].ok
                /\ pointer' = pointer]_vars

C10_Witness ==
    \E p, q \in Procs :
        /\ procs[p].op = "get" /\ procs[p].pc = "idle" /\ procs[p].active = NoActive
        /\ pointer.exists /\ pointer.key \in PromptKeys /\ ~entries[pointer.key].exists
        /\ procs[p].target = pointer.key
        /\ procs[q].op = "activate" /\ procs[q].pc = "idle" /\ ~procs[q].ok

====
